---- MODULE Spec2Model ----
(***************************************************************************)
(* A model of the crds ledger node (src/index.js): the chain manager       *)
(* (addBlock), the message validator (Message.verify), the block validator *)
(* (Block.verify), the state projector (_commitMainChainBlock), the        *)
(* mempool (submitMessage / addMessage) and persistence (saveState,        *)
(* loadState) with process crashes.                                        *)
(*                                                                         *)
(* Abstractions.  SHA-256 is an injective function: the digest of a value  *)
(* is the value wrapped in a "sha256" tuple, so a block whose claimed hash *)
(* is its computed hash can never have its own hash as prevHash.  A key    *)
(* pair is named by the address it derives (_getAddressFromPublicKey is    *)
(* injective); the null key is NULL_KEY.  A signature records the key that *)
(* made it (and a salt, ECDSA signatures being randomized); it verifies    *)
(* under exactly that key.  Whether a block hash meets a difficulty target *)
(* is decided by the block's nonce (nonce 0 misses every target), the      *)
(* numeric value of a digest not being modelled.  JavaScript undefined,    *)
(* null, Infinity are the strings below.                                   *)
(***************************************************************************)
EXTENDS Integers, Sequences, FiniteSets, TLC

\* ------------------------------------------------------------ constants
MESSAGE_TTL == 10
UNDO_HEIGHT == 10
CHARGE_SETTLE_BLOCKS == 100
MESSAGES_PER_BLOCK_MAX == 10000
MIN_DIFFICULTY == 1000
TARGET_BLOCKS == 10
TARGET_TIME == 600000
COINBASE_QUANTITY == 100
CRD == "CRD"
NULL_KEY == "NULLKEY"
zeroHash == <<"0">>

UNDEF == "undefined"
NULL == "null"
INFINITY == "Infinity"

\* ------------------------------------------------------------ JS objects
\* A JavaScript object is a function; o[k] of a missing key is undefined.
Get(o, k) ==
    IF k \in DOMAIN o THEN o[k] ELSE UNDEF

Put(o, k, v) ==
    [x \in (DOMAIN o) \cup {k} |-> IF x = k THEN v ELSE o[x]]

Del(o, k) ==
    [x \in (DOMAIN o) \ {k} |-> o[x]]

EmptyObj ==
    [x \in {} |-> 0]

\* Array.prototype.slice(-n): the last n elements (all of them when n >= length).
LastN(s, n) ==
    IF Len(s) <= n THEN s ELSE SubSeq(s, Len(s) - n + 1, Len(s))

\* Array.prototype.splice(i, 1) on a copy, i counted from 1.
RemoveAt(s, i) ==
    SubSeq(s, 1, i - 1) \o SubSeq(s, i + 1, Len(s))

Range(s) ==
    {s[i] : i \in 1..Len(s)}

RECURSIVE SumSeq(_)
SumSeq(s) ==
    IF s = <<>> THEN 0 ELSE Head(s) + SumSeq(Tail(s))

\* crypto.createHash('sha256'): injective.
Sha256(x) ==
    <<"sha256", x>>

\* ------------------------------------------------------------ results
\* What a handler returns: null (OK), or an error object {status, error |
\* stack, soft}; thrown marks an exception raised instead of a return.
OK ==
    [status |-> 0, error |-> NULL, stack |-> UNDEF, soft |-> FALSE, thrown |-> FALSE]

Err(status, text) ==
    [status |-> status, error |-> text, stack |-> UNDEF, soft |-> FALSE, thrown |-> FALSE]

SoftErr(status, text) ==
    [status |-> status, error |-> text, stack |-> UNDEF, soft |-> TRUE, thrown |-> FALSE]

StackErr(status, text) ==
    [status |-> status, error |-> UNDEF, stack |-> text, soft |-> FALSE, thrown |-> FALSE]

\* An exception (ReferenceError, TypeError) propagating out of the handler.
Thrown(kind) ==
    [status |-> 0, error |-> UNDEF, stack |-> kind, soft |-> FALSE, thrown |-> TRUE]

\* ------------------------------------------------------------ assets
\* The asset names of the model, classified as the regular expressions of
\* the source classify them.
isBaseAsset(asset) ==
    asset \in {"CRD", "GOLD"}

isBasicAsset(asset) ==
    asset \in {"CRD", "CRD.KEY", "GOLD", "GOLD.RING"}

isMintAsset(asset) ==
    asset \in {"CRD:mint", "CRD.KEY:mint", "GOLD:mint", "GOLD.RING:mint"}

isValidAsset(asset) ==
    isBasicAsset(asset) \/ isMintAsset(asset)

getBaseAsset(asset) ==
    IF asset \in {"CRD", "CRD.KEY", "CRD:mint", "CRD.KEY:mint"} THEN "CRD" ELSE "GOLD"

\* asset + ':mint'
MintAssetOf(asset) ==
    CASE asset = "CRD" -> "CRD:mint"
      [] asset = "CRD.KEY" -> "CRD.KEY:mint"
      [] asset = "GOLD" -> "GOLD:mint"
      [] asset = "GOLD.RING" -> "GOLD.RING:mint"
      [] OTHER -> "invalid:mint"

\* asset.match(/^(.+):mint$/): the part before ':mint', or undefined.
MintMatch(asset) ==
    CASE asset = "CRD:mint" -> "CRD"
      [] asset = "CRD.KEY:mint" -> "CRD.KEY"
      [] asset = "GOLD:mint" -> "GOLD"
      [] asset = "GOLD.RING:mint" -> "GOLD.RING"
      [] OTHER -> UNDEF

\* ------------------------------------------------------------ messages
\* JSON payload of a message; a field a type does not carry is undefined
\* (0 for the numbers).  publicKey is named by the address it derives.
Payload(type, asset, quantity, price, address, dstAddress, publicKey, startHeight, timestamp) ==
    [type |-> type, asset |-> asset, quantity |-> quantity, price |-> price,
     address |-> address, dstAddress |-> dstAddress, publicKey |-> publicKey,
     startHeight |-> startHeight, timestamp |-> timestamp]

\* eccrypto.sign(privateKey, payloadHash): the signature of a digest by a
\* key; salt tells apart two signatures of the same digest by the same key.
eccSign(by, payloadHash, salt) ==
    [by |-> by, over |-> payloadHash, salt |-> salt]

\* new Message(payload, hash, signature), hashed and signed by key `by`.
Message(payload, by, salt) ==
    [payload |-> payload, hash |-> Sha256(payload),
     signature |-> eccSign(by, Sha256(payload), salt)]

\* eccrypto.verify(publicKey, payloadHash, signature)
eccVerify(publicKey, payloadHash, signature) ==
    signature.by = publicKey /\ signature.over = payloadHash

getAddressFromPublicKey(publicKey) ==
    publicKey

\* ------------------------------------------------------------ chain state
\* A price as a JavaScript value: a number, Infinity or (after a JSON round
\* trip of Infinity) null.
PriceNum(n) ==
    <<"number", n>>

PriceInfinity ==
    <<INFINITY>>

PriceNull ==
    <<NULL>>

DEFAULT_DB ==
    [balances |-> EmptyObj,
     messageHashes |-> <<>>,
     minters |-> [a \in {CRD} |-> NULL],
     prices |-> [a \in {CRD} |-> PriceInfinity]]

DEFAULT_MEMPOOL ==
    [blocks |-> <<>>, messages |-> <<>>]

\* The validator's mempool argument when there is none (mempool = null).
NoMempool ==
    [blocks |-> <<>>, messages |-> <<>>, none |-> TRUE]

HasMempool(mempool) ==
    "none" \notin DOMAIN mempool

\* JSON.parse(JSON.stringify(db)): Infinity is written as null.
clone(db) ==
    [db EXCEPT !.prices =
        [a \in DOMAIN db.prices |->
            IF db.prices[a] = PriceInfinity THEN PriceNull ELSE db.prices[a]]]

\* ------------------------------------------------------------ minters
\* The first message of mintMessages that the loop of
\* _getPostMessagesMinter applies to `minter`, or 0.
RECURSIVE FirstMintIndex(_, _, _)
FirstMintIndex(minter, mintMessages, i) ==
    IF i > Len(mintMessages) THEN 0
    ELSE LET p == mintMessages[i].payload IN
         IF \/ p.type = "minter" /\ minter = UNDEF
            \/ p.type = "send" /\ minter = p.address
         THEN i
         ELSE FirstMintIndex(minter, mintMessages, i + 1)

RECURSIVE MinterLoop(_, _)
MinterLoop(minter, mintMessages) ==
    LET i == FirstMintIndex(minter, mintMessages, 1) IN
    IF i = 0 THEN minter
    ELSE LET p == mintMessages[i].payload
             next == IF p.type = "minter" THEN getAddressFromPublicKey(p.publicKey)
                     ELSE p.dstAddress
         IN MinterLoop(next, RemoveAt(mintMessages, i))

getPostMessagesMinter(minter, asset, messages) ==
    LET mintMessages == SelectSeq(messages, LAMBDA message :
            \/ message.payload.type = "minter" /\ message.payload.asset = asset
            \/ message.payload.type = "send" /\ message.payload.asset = MintAssetOf(asset))
    IN MinterLoop(minter, mintMessages)

getConfirmedMinter(db, confirmingMessages, asset) ==
    getPostMessagesMinter(Get(db.minters, asset), asset, confirmingMessages)

getUnconfirmedMinter(db, mempool, confirmingMessages, asset) ==
    getPostMessagesMinter(getConfirmedMinter(db, confirmingMessages, asset), asset, mempool.messages)

\* !mempool ? _getConfirmedMinter(...) : _getUnconfirmedMinter(...)
viewMinter(db, mempool, confirmingMessages, asset) ==
    IF ~HasMempool(mempool) THEN getConfirmedMinter(db, confirmingMessages, asset)
    ELSE getUnconfirmedMinter(db, mempool, confirmingMessages, asset)

\* ------------------------------------------------------------ prices
RECURSIVE getPostMessagesPrices(_, _, _)
getPostMessagesPrices(prices, asset, messages) ==
    IF messages = <<>> THEN prices
    ELSE LET p == Head(messages).payload IN
         getPostMessagesPrices(
             IF p.type = "price" /\ p.asset = asset
             THEN Append(prices, PriceNum(p.price)) ELSE prices,
             asset, Tail(messages))

NullToInfinity(prices) ==
    [i \in 1..Len(prices) |-> IF prices[i] = PriceNull THEN PriceInfinity ELSE prices[i]]

getConfirmedPrices(db, confirmingMessages, asset) ==
    LET stored == Get(db.prices, asset)
        first == IF asset \in DOMAIN db.prices /\ stored # PriceNull THEN stored
                 ELSE PriceInfinity
    IN NullToInfinity(getPostMessagesPrices(<<first>>, asset, confirmingMessages))

getUnconfirmedPrices(db, mempool, confirmingMessages, asset) ==
    NullToInfinity(getPostMessagesPrices(
        getConfirmedPrices(db, confirmingMessages, asset), asset, mempool.messages))

viewPrices(db, mempool, confirmingMessages, asset) ==
    IF ~HasMempool(mempool) THEN getConfirmedPrices(db, confirmingMessages, asset)
    ELSE getUnconfirmedPrices(db, mempool, confirmingMessages, asset)

\* _getConfirmedPrice / _getUnconfirmedPrice: the last of the prices.
viewPrice(db, mempool, confirmingMessages, asset) ==
    LET prices == viewPrices(db, mempool, confirmingMessages, asset) IN
    prices[Len(prices)]

\* ------------------------------------------------------------ balances
\* A balance computed by the validator: a number, or an exception raised
\* while computing it.
Bal(n) ==
    [thrown |-> FALSE, value |-> n]

BalThrown ==
    [thrown |-> TRUE, value |-> 0]

\* One iteration of the loop of _getPostMessagesBalance.  In the buy branch
\* `price` and `quantity` are declared inside the first if-block only, so
\* the debit of the buyer reads undeclared identifiers: a ReferenceError.
postMessageBalance(balance, db, mempool, confirmingMessages, address, asset, message) ==
    LET p == message.payload
        signer == getAddressFromPublicKey(p.publicKey)
    IN
    CASE p.type = "coinbase" ->
           IF p.asset = asset /\ p.address = address
           THEN Bal(balance + p.quantity) ELSE Bal(balance)
      [] p.type = "send" ->
           IF p.asset = asset
           THEN Bal(balance - (IF p.address = address THEN p.quantity ELSE 0)
                            + (IF p.dstAddress = address THEN p.quantity ELSE 0))
           ELSE Bal(balance)
      [] p.type = "buy" ->
           IF asset = CRD
           THEN LET minter == viewMinter(db, mempool, confirmingMessages, p.asset)
                    credited == IF address = minter
                                THEN balance + (p.price * p.quantity) ELSE balance
                IN IF address = signer THEN BalThrown ELSE Bal(credited)
           ELSE IF address = signer /\ asset = p.asset
                THEN Bal(balance + p.quantity) ELSE Bal(balance)
      [] p.type \in {"mint", "burn"} ->
           IF signer = address /\ p.asset = asset
           THEN Bal(IF p.type = "mint" THEN balance + p.quantity ELSE balance - p.quantity)
           ELSE Bal(balance)
      [] p.type \in {"get", "drop"} ->
           IF p.address = address /\ p.asset = asset
           THEN Bal(IF p.type = "get" THEN balance + p.quantity ELSE balance - p.quantity)
           ELSE Bal(balance)
      [] p.type = "minter" ->
           IF signer = address /\ MintAssetOf(p.asset) = asset
           THEN Bal(balance + 1) ELSE Bal(balance)
      [] OTHER -> Bal(balance)

RECURSIVE getPostMessagesBalance(_, _, _, _, _, _, _)
getPostMessagesBalance(balance, db, mempool, confirmingMessages, address, asset, messages) ==
    IF messages = <<>> THEN Bal(balance)
    ELSE LET r == postMessageBalance(balance, db, mempool, confirmingMessages,
                                     address, asset, Head(messages))
         IN IF r.thrown THEN r
            ELSE getPostMessagesBalance(r.value, db, mempool, confirmingMessages,
                                        address, asset, Tail(messages))

\* (db.balances[address] || {})[asset], 0 when undefined.
storedBalance(db, address, asset) ==
    IF address \in DOMAIN db.balances /\ asset \in DOMAIN db.balances[address]
    THEN db.balances[address][asset] ELSE 0

getConfirmedBalance(db, confirmingMessages, address, asset) ==
    getPostMessagesBalance(storedBalance(db, address, asset), db, NoMempool,
                           confirmingMessages, address, asset, confirmingMessages)

getUnconfirmedBalance(db, mempool, confirmingMessages, address, asset) ==
    LET result == getConfirmedBalance(db, confirmingMessages, address, asset) IN
    IF result.thrown THEN result
    ELSE getPostMessagesBalance(result.value, db, mempool, confirmingMessages,
                                address, asset, mempool.messages)

viewBalance(db, mempool, confirmingMessages, address, asset) ==
    IF ~HasMempool(mempool) THEN getConfirmedBalance(db, confirmingMessages, address, asset)
    ELSE getUnconfirmedBalance(db, mempool, confirmingMessages, address, asset)

\* ------------------------------------------------------------ Message.verify
tailHeight(blocks) ==
    IF Len(blocks) > 0 THEN blocks[Len(blocks)].height ELSE 0

\* quantity > 0 && Math.floor(quantity) === quantity
isPositiveInteger(quantity) ==
    quantity > 0

\* db.messageHashes.some(hashes => hashes.includes(hash))
hashSeen(db, hash) ==
    \E i \in 1..Len(db.messageHashes) :
        \E j \in 1..Len(db.messageHashes[i]) : db.messageHashes[i][j] = hash

\* Array.prototype.includes
includes(s, x) ==
    \E i \in 1..Len(s) : s[i] = x

\* The free-mint gate of get, burn and drop (_checkFree).
checkFree(db, mempool, confirmingMessages, asset, address, text) ==
    IF viewMinter(db, mempool, confirmingMessages, getBaseAsset(asset)) \in {UNDEF, address}
    THEN OK
    ELSE IF viewPrice(db, mempool, confirmingMessages, getBaseAsset(asset)) = PriceNum(0)
         THEN OK
    ELSE StackErr(400, text)

\* _checkBalance of send, burn and drop.
sufficient(balance, quantity, error) ==
    IF balance.thrown THEN Thrown("ReferenceError")
    ELSE IF balance.value >= quantity THEN OK
    ELSE error

checkBalance(db, mempool, confirmingMessages, address, asset, quantity) ==
    sufficient(viewBalance(db, mempool, confirmingMessages, address, asset), quantity,
               Err(402, "insufficient funds"))

\* A coinbase checked without looking at the other messages of the block.
verifyCoinbaseAlone(p, signature, confirmingMessages) ==
    IF ~eccVerify(NULL_KEY, Sha256(p), signature) THEN Err(400, "invalid signature")
    ELSE IF ~(p.asset = CRD /\ p.quantity = COINBASE_QUANTITY) THEN Err(400, "invalid coinbase")
    ELSE OK

verifyCoinbase(p, signature, confirmingMessages) ==
    IF ~eccVerify(NULL_KEY, Sha256(p), signature) THEN Err(400, "invalid signature")
    ELSE IF ~(p.asset = CRD /\ p.quantity = COINBASE_QUANTITY) THEN Err(400, "invalid coinbase")
    ELSE IF \E i \in 1..Len(confirmingMessages) :
                confirmingMessages[i].payload.type = "coinbase"
         THEN Err(400, "multiple coinbases")
    ELSE OK

verifySend(db, mempool, p, signature, confirmingMessages) ==
    IF ~(eccVerify(p.publicKey, Sha256(p), signature) /\ getAddressFromPublicKey(p.publicKey) = p.address)
    THEN Err(400, "invalid signature")
    ELSE IF ~isValidAsset(p.asset) THEN Err(400, "invalid asset")
    ELSE IF ~(isPositiveInteger(p.quantity) /\ (~isMintAsset(p.asset) \/ p.quantity = 1))
         THEN Err(400, "invalid quantity")
    ELSE checkBalance(db, mempool, confirmingMessages, p.address, p.asset, p.quantity)

\* A minter message checked without looking at the minter the asset has.
verifyMinterAnyTime(db, mempool, p, signature, confirmingMessages) ==
    IF ~eccVerify(p.publicKey, Sha256(p), signature) THEN Err(400, "invalid signature")
    ELSE IF ~isBaseAsset(p.asset) THEN StackErr(400, "invalid asset")
    ELSE OK

verifyMinter(db, mempool, p, signature, confirmingMessages) ==
    IF ~eccVerify(p.publicKey, Sha256(p), signature) THEN Err(400, "invalid signature")
    ELSE IF ~isBaseAsset(p.asset) THEN StackErr(400, "invalid asset")
    ELSE IF viewMinter(db, mempool, confirmingMessages, p.asset) = UNDEF THEN OK
    ELSE StackErr(400, "asset already has minter")

verifyMint(db, mempool, p, signature, confirmingMessages) ==
    IF ~eccVerify(p.publicKey, Sha256(p), signature) THEN Err(400, "invalid signature")
    ELSE IF ~isBasicAsset(p.asset) THEN Err(400, "invalid asset")
    ELSE IF ~isPositiveInteger(p.quantity) THEN Err(400, "invalid quantity")
    ELSE LET baseAsset == getBaseAsset(p.asset) IN
         IF viewMinter(db, mempool, confirmingMessages, baseAsset)
                = getAddressFromPublicKey(p.publicKey) THEN OK
         ELSE IF viewPrice(db, mempool, confirmingMessages, baseAsset) = PriceNum(0) THEN OK
         ELSE StackErr(400, "address cannot mint this asset")

verifyGet(db, mempool, p, signature, confirmingMessages) ==
    IF ~eccVerify(NULL_KEY, Sha256(p), signature) THEN Err(400, "invalid signature")
    ELSE IF ~isBasicAsset(p.asset) THEN Err(400, "invalid asset")
    ELSE IF ~isPositiveInteger(p.quantity) THEN Err(400, "invalid quantity")
    ELSE checkFree(db, mempool, confirmingMessages, p.asset, p.address,
                   "address cannot mint this asset")

\* burn (signed by the holder) and drop (signed by the null key):
\* _checkFree() || _checkBalance().
freeAndFunded(free, funded) ==
    IF free # OK THEN free ELSE funded

verifyBurnDrop(db, mempool, p, signature, confirmingMessages, key, address, text) ==
    IF ~eccVerify(key, Sha256(p), signature) THEN Err(400, "invalid signature")
    ELSE IF ~isBasicAsset(p.asset) THEN Err(400, "invalid asset")
    ELSE IF ~isPositiveInteger(p.quantity) THEN Err(400, "invalid quantity")
    ELSE freeAndFunded(checkFree(db, mempool, confirmingMessages, p.asset, address, text),
                       checkBalance(db, mempool, confirmingMessages, address, p.asset,
                                    p.quantity))

verifyPrice(db, mempool, p, signature, confirmingMessages) ==
    IF ~eccVerify(p.publicKey, Sha256(p), signature) THEN Err(400, "invalid signature")
    ELSE IF ~isBaseAsset(p.asset) THEN Err(400, "invalid asset")
    ELSE IF viewMinter(db, mempool, confirmingMessages, p.asset)
                # getAddressFromPublicKey(p.publicKey)
         THEN StackErr(400, "address is not minter of this asset")
    ELSE IF ~(p.price >= 0) THEN StackErr(400, "invalid price")
    ELSE OK

verifyBuy(db, mempool, p, signature, confirmingMessages) ==
    IF ~eccVerify(p.publicKey, Sha256(p), signature) THEN Err(400, "invalid signature")
    ELSE IF ~isBaseAsset(p.asset) THEN Err(400, "invalid asset")
    ELSE IF ~isPositiveInteger(p.quantity) THEN StackErr(400, "invalid quantity")
    ELSE IF ~(p.price > 0) THEN StackErr(400, "invalid price")
    ELSE IF viewMinter(db, mempool, confirmingMessages, p.asset) \in {UNDEF, NULL}
         THEN StackErr(400, "address is not minter of this asset")
    ELSE IF ~includes(viewPrices(db, mempool, confirmingMessages, p.asset), PriceNum(p.price))
         THEN StackErr(400, "incorrect declared price")
    ELSE sufficient(viewBalance(db, mempool, confirmingMessages,
                                getAddressFromPublicKey(p.publicKey), CRD),
                    p.quantity * p.price, StackErr(400, "insufficient funds"))

\* The window test with its upper end included: a message would live one
\* block longer than MESSAGE_TTL.
withinTtlInclusive(startHeight, nextHeight) ==
    nextHeight >= startHeight /\ nextHeight <= startHeight + MESSAGE_TTL

\* nextHeight >= startHeight && nextHeight < endHeight
withinTtl(startHeight, nextHeight) ==
    nextHeight >= startHeight /\ nextHeight < startHeight + MESSAGE_TTL

\* Message.verify(db, blocks, mempool, confirmingMessages)
MessageVerify(message, db, blocks, mempool, confirmingMessages) ==
    LET p == message.payload
        nextHeight == tailHeight(blocks) + 1
    IN
    IF Sha256(p) # message.hash THEN Err(400, "invalid hash")
    ELSE IF ~withinTtl(p.startHeight, nextHeight) THEN Err(400, "ttl expired")
    ELSE IF hashSeen(db, message.hash) THEN SoftErr(400, "replay detected")
    ELSE CASE p.type = "coinbase" -> verifyCoinbase(p, message.signature, confirmingMessages)
           [] p.type = "send" -> verifySend(db, mempool, p, message.signature, confirmingMessages)
           [] p.type = "minter" -> verifyMinter(db, mempool, p, message.signature, confirmingMessages)
           [] p.type = "mint" -> verifyMint(db, mempool, p, message.signature, confirmingMessages)
           [] p.type = "get" -> verifyGet(db, mempool, p, message.signature, confirmingMessages)
           [] p.type = "burn" ->
                verifyBurnDrop(db, mempool, p, message.signature, confirmingMessages,
                               p.publicKey, getAddressFromPublicKey(p.publicKey),
                               "address cannot burn this asset")
           [] p.type = "drop" ->
                verifyBurnDrop(db, mempool, p, message.signature, confirmingMessages,
                               NULL_KEY, p.address, "address cannot drop this asset")
           [] p.type = "price" -> verifyPrice(db, mempool, p, message.signature, confirmingMessages)
           [] p.type = "buy" -> verifyBuy(db, mempool, p, message.signature, confirmingMessages)
           [] OTHER -> Err(400, "unknown message type")

\* ------------------------------------------------------------ blocks
\* Block.getHash(): the digest of the header fields, the messages and the
\* nonce (block version is the same for every block and left out; height,
\* difficulty and timestamp stay below 2^31 in the model, so their 32-bit
\* truncation is the identity here).
getHash(block) ==
    Sha256(<<block.prevHash, block.height, block.difficulty, block.timestamp,
             block.messages, block.nonce>>)

\* new Block(hash, ...) with the hash it computes to.
Block(prevHash, height, difficulty, timestamp, messages, nonce) ==
    LET b == [prevHash |-> prevHash, height |-> height, difficulty |-> difficulty,
              timestamp |-> timestamp, messages |-> messages, nonce |-> nonce]
    IN [hash |-> getHash(b), prevHash |-> prevHash, height |-> height,
        difficulty |-> difficulty, timestamp |-> timestamp, messages |-> messages,
        nonce |-> nonce]

\* _getHashDifficulty(hash): bigint(hash) / maxTarget in integers, which is
\* 0 for every digest but 2^256 - 1 (no digest of the model).
getHashDifficulty(hash) ==
    IF hash = <<"ff">> THEN 1 ELSE 0

\* _checkHashMeetsTarget(hash, _getDifficultyTarget(difficulty)): the
\* numeric value of a digest is not modelled; nonce 0 stands for the nonces
\* whose digest misses the target of the claimed difficulty, any other
\* nonce for those whose digest meets it.
checkHashMeetsTarget(block) ==
    block.nonce # 0

RECURSIVE InsertSorted(_, _)
InsertSorted(sorted, x) ==
    IF sorted = <<>> THEN <<x>>
    ELSE IF x <= Head(sorted) THEN <<x>> \o sorted
    ELSE <<Head(sorted)>> \o InsertSorted(Tail(sorted), x)

RECURSIVE SortNumbers(_)
SortNumbers(s) ==
    IF s = <<>> THEN <<>> ELSE InsertSorted(SortNumbers(Tail(s)), Head(s))

Timestamps(blocks) ==
    [i \in 1..Len(blocks) |-> blocks[i].timestamp]

\* _getNextBlockMinTimestamp(blocks), doubled: the median of the last
\* TARGET_BLOCKS timestamps is a half-integer for an even count.
twiceNextBlockMinTimestamp(blocks) ==
    LET sorted == SortNumbers(Timestamps(LastN(blocks, TARGET_BLOCKS)))
        n == Len(sorted)
        middleIndex == ((n - 1) \div 2) + 1
    IN IF n = 0 THEN 0
       ELSE IF n % 2 = 1 THEN 2 * sorted[middleIndex]
       ELSE sorted[middleIndex] + sorted[middleIndex + 1]

\* Timestamps of the model are multiples of this unit.
TimeUnit ==
    TARGET_TIME \div 2

\* difficulty >= _getNextBlockBaseDifficulty(blocks), in integers:
\* base = max(average difficulty / accuracyFactor, MIN_DIFFICULTY) with
\* accuracyFactor = clamp(timeDiff / TARGET_TIME, 0.5, 2).
meetsBaseDifficulty(difficulty, blocks) ==
    LET checkBlocks == LastN(blocks, TARGET_BLOCKS)
        n == Len(checkBlocks)
        sorted == SortNumbers(Timestamps(checkBlocks))
        timeDiff == IF n = 0 THEN 0 ELSE sorted[n] - sorted[1]
        acc == SumSeq([i \in 1..n |-> checkBlocks[i].difficulty])
        t == timeDiff \div TimeUnit
    IN IF n = 0 THEN TRUE
       ELSE IF t <= 1 THEN difficulty * n >= 2 * acc
       ELSE IF t >= 4 THEN 2 * difficulty * n >= acc
       ELSE difficulty * n * t >= 2 * acc

getMessagesDifficulty(messages) ==
    SumSeq([i \in 1..Len(messages) |-> getHashDifficulty(messages[i].hash)])

\* _checkSufficientDifficulty: difficulty >= max(base - bonus, MIN_DIFFICULTY).
checkSufficientDifficulty(block, blocks) ==
    /\ block.difficulty >= MIN_DIFFICULTY
    /\ meetsBaseDifficulty(block.difficulty + getMessagesDifficulty(block.messages), blocks)

\* _verifyMessages: every message against the other messages of the block.
RECURSIVE verifyMessages(_, _, _, _, _)
verifyMessages(block, db, blocks, mempool, i) ==
    IF i > Len(block.messages) THEN OK
    ELSE LET error == MessageVerify(block.messages[i], db, blocks, mempool,
                                    RemoveAt(block.messages, i))
         IN IF error # OK THEN error
            ELSE verifyMessages(block, db, blocks, mempool, i + 1)

\* Block.verify with the test of the parent before the test of the digest.
BlockVerifyPrevFirst(block, db, blocks) ==
    IF block.prevHash # (IF Len(blocks) > 0 THEN blocks[Len(blocks)].hash ELSE zeroHash)
    THEN SoftErr(400, "invalid previous hash")
    ELSE IF getHash(block) # block.hash THEN Err(400, "invalid hash")
    ELSE IF block.height # tailHeight(blocks) + 1 THEN Err(400, "invalid height")
    ELSE IF ~(2 * block.timestamp >= twiceNextBlockMinTimestamp(blocks))
         THEN Err(400, "invalid timestamp")
    ELSE IF ~checkHashMeetsTarget(block) THEN Err(400, "invalid difficulty claim")
    ELSE IF ~(Len(block.messages) <= MESSAGES_PER_BLOCK_MAX) THEN Err(400, "too many messages")
    ELSE IF ~checkSufficientDifficulty(block, blocks) THEN Err(400, "insufficient difficulty")
    ELSE verifyMessages(block, db, blocks, NoMempool, 1)

\* Block.verify(db, blocks, mempool = null)
BlockVerify(block, db, blocks) ==
    IF getHash(block) # block.hash THEN Err(400, "invalid hash")
    ELSE IF block.prevHash # (IF Len(blocks) > 0 THEN blocks[Len(blocks)].hash ELSE zeroHash)
         THEN SoftErr(400, "invalid previous hash")
    ELSE IF block.height # tailHeight(blocks) + 1 THEN Err(400, "invalid height")
    ELSE IF ~(2 * block.timestamp >= twiceNextBlockMinTimestamp(blocks))
         THEN Err(400, "invalid timestamp")
    ELSE IF ~checkHashMeetsTarget(block) THEN Err(400, "invalid difficulty claim")
    ELSE IF ~(Len(block.messages) <= MESSAGES_PER_BLOCK_MAX) THEN Err(400, "too many messages")
    ELSE IF ~checkSufficientDifficulty(block, blocks) THEN Err(400, "insufficient difficulty")
    ELSE verifyMessages(block, db, blocks, NoMempool, 1)

\* ------------------------------------------------------------ state projector
\* balances[address][asset] += quantity, creating the entries.
credit(balances, address, asset, quantity) ==
    LET addressEntry == IF address \in DOMAIN balances THEN balances[address] ELSE EmptyObj
        assetEntry == IF asset \in DOMAIN addressEntry THEN addressEntry[asset] ELSE 0
    IN Put(balances, address, Put(addressEntry, asset, assetEntry + quantity))

\* burn and drop: undefined - quantity is NaN and NaN > 0 is false, so a
\* missing entry is deleted like one that reaches 0 or less.
debitOrDelete(balances, address, asset, quantity) ==
    LET addressEntry == IF address \in DOMAIN balances THEN balances[address] ELSE EmptyObj
        positive == asset \in DOMAIN addressEntry /\ addressEntry[asset] - quantity > 0
        left == Del(addressEntry, asset)
    IN IF positive
       THEN Put(balances, address, Put(addressEntry, asset, addressEntry[asset] - quantity))
       ELSE IF DOMAIN left = {} THEN Del(balances, address)
       ELSE Put(balances, address, left)

\* A send that computes both new entries from the balances it started with:
\* when source and destination are one address the debit is lost.
moveBalanceStale(balances, srcAddress, dstAddress, asset, quantity) ==
    LET debited == credit(balances, srcAddress, asset, 0 - quantity)
        credited == credit(balances, dstAddress, asset, quantity)
    IN [a \in DOMAIN debited \cup DOMAIN credited |->
          IF a = dstAddress THEN credited[a] ELSE debited[a]]

\* The balance part of a send: the source entry is debited and stored, then
\* the destination entry is read, credited and stored.
moveBalance(balances, srcAddress, dstAddress, asset, quantity) ==
    credit(credit(balances, srcAddress, asset, 0 - quantity), dstAddress, asset, quantity)

\* One iteration of the loop of _commitMainChainBlock.
applyMessage(newDb, message) ==
    LET p == message.payload
        signer == getAddressFromPublicKey(p.publicKey)
    IN
    CASE p.type \in {"coinbase", "get"} ->
           [newDb EXCEPT !.balances = credit(@, p.address, p.asset, p.quantity)]
      [] p.type = "send" ->
           LET moved == moveBalance(newDb.balances, p.address, p.dstAddress,
                                    p.asset, p.quantity)
               baseAsset == MintMatch(p.asset)
           IN [newDb EXCEPT !.balances = moved,
                            !.minters = IF baseAsset # UNDEF
                                        THEN Put(@, baseAsset, p.dstAddress) ELSE @]
      [] p.type = "price" ->
           [newDb EXCEPT !.prices = Put(@, p.asset, PriceNum(p.price))]
      [] p.type = "buy" ->
           LET srcAddress == Get(newDb.minters, p.asset)
               paid == credit(credit(newDb.balances, srcAddress, CRD, p.quantity * p.price),
                              signer, CRD, 0 - (p.quantity * p.price))
           IN [newDb EXCEPT !.balances = credit(paid, signer, p.asset, p.quantity)]
      [] p.type = "mint" ->
           [newDb EXCEPT !.balances = credit(@, signer, p.asset, p.quantity)]
      [] p.type = "burn" ->
           [newDb EXCEPT !.balances = debitOrDelete(@, signer, p.asset, p.quantity)]
      [] p.type = "drop" ->
           [newDb EXCEPT !.balances = debitOrDelete(@, p.address, p.asset, p.quantity)]
      [] p.type = "minter" ->
           [newDb EXCEPT !.balances = credit(@, signer, MintAssetOf(p.asset), 1),
                         !.minters = Put(@, p.asset, signer)]

RECURSIVE applyMessages(_, _)
applyMessages(newDb, messages) ==
    IF messages = <<>> THEN newDb
    ELSE applyMessages(applyMessage(newDb, Head(messages)), Tail(messages))

\* A commit that keeps one layer of message hashes more.
pushMessageHashesLate(messageHashes, block) ==
    LastN(Append(messageHashes, [i \in 1..Len(block.messages) |-> block.messages[i].hash]),
          MESSAGE_TTL + 1)

\* newDb.messageHashes.push(hashes); shift while longer than MESSAGE_TTL.
pushMessageHashes(messageHashes, block) ==
    LastN(Append(messageHashes, [i \in 1..Len(block.messages) |-> block.messages[i].hash]),
          MESSAGE_TTL)

\* A commit that empties mempool.messages instead of filtering it.
evictMempoolAll(mempool, block) ==
    [blocks |-> SelectSeq(mempool.blocks, LAMBDA mempoolBlock : mempoolBlock.hash # block.hash),
     messages |-> <<>>]

\* The mempool after a main-chain commit: the block leaves mempool.blocks,
\* and the messages whose signature is that of a message of the block leave
\* mempool.messages.
evictMempool(mempool, block) ==
    [blocks |-> SelectSeq(mempool.blocks, LAMBDA mempoolBlock : mempoolBlock.hash # block.hash),
     messages |-> SelectSeq(mempool.messages, LAMBDA mempoolMessage :
         ~\E i \in 1..Len(block.messages) :
             block.messages[i].signature = mempoolMessage.signature)]

\* _commitMainChainBlock(db, blocks, mempool, block)
commitMainChainBlock(db, blocks, mempool, block) ==
    LET applied == applyMessages(clone(db), block.messages) IN
    [newDb |-> [applied EXCEPT !.messageHashes = pushMessageHashes(@, block)],
     newMempool |-> evictMempool(mempool, block)]


\* ------------------------------------------------------------ chain manager

\* blocks[i] of a JavaScript array (0-based): <<>> stands for undefined.
At(blocks, i) ==
    IF i >= 0 /\ i < Len(blocks) THEN <<blocks[i + 1]>> ELSE <<>>

topBlockHeight(blocks) ==
    IF Len(blocks) > 0 THEN blocks[Len(blocks)].height ELSE 0

\* mempool.blocks.find(mempoolBlock => mempoolBlock.hash === hash) as a
\* sequence of at most one block.
RECURSIVE findMempoolBlock(_, _)
findMempoolBlock(mempoolBlocks, hash) ==
    IF mempoolBlocks = <<>> THEN <<>>
    ELSE IF Head(mempoolBlocks).hash = hash THEN <<Head(mempoolBlocks)>>
    ELSE findMempoolBlock(Tail(mempoolBlocks), hash)

\* The duplicate test that looks at the stashed blocks only.
checkBlockInMempool(blocks, mempool, block) ==
    \E i \in 1..Len(mempool.blocks) :
        /\ mempool.blocks[i].hash = block.hash
        /\ mempool.blocks[i].height = block.height

checkBlockExists(blocks, mempool, block) ==
    LET checkBlockIndex == block.height - 1
        topBlockIndex == topBlockHeight(blocks) - 1
        firstBlockHeight == IF Len(blocks) > 0 THEN blocks[1].height ELSE 0
        firstBlockIndex == firstBlockHeight - 1
        mainChainBlock == IF checkBlockIndex <= topBlockIndex
                          THEN At(blocks, checkBlockIndex - firstBlockIndex)
                          ELSE <<>>
    IN \/ mainChainBlock # <<>> /\ mainChainBlock[1].hash = block.hash
       \/ \E i \in 1..Len(mempool.blocks) :
              /\ mempool.blocks[i].hash = block.hash
              /\ mempool.blocks[i].height = block.height

\* _getPreviousMainChainBlock: the array slot height - 2 of blocks, when it
\* holds the block that prevHash names.
getPreviousMainChainBlock(blocks, block) ==
    LET previousBlockIndex == (block.height - 1) - 1
        candidate == At(blocks, previousBlockIndex)
    IN IF candidate # <<>> /\ candidate[1].hash = block.prevHash THEN candidate ELSE <<>>

\* _getBlockForkOrigin: follow prevHash through the mempool blocks until a
\* main chain block is met; <<>> stands for null.
RECURSIVE getBlockForkOrigin(_, _, _)
getBlockForkOrigin(blocks, mempool, b) ==
    LET previousMainChainBlock == getPreviousMainChainBlock(blocks, b)
        previousMempoolBlock == findMempoolBlock(mempool.blocks, b.prevHash)
    IN IF previousMainChainBlock # <<>> THEN previousMainChainBlock
       ELSE IF previousMempoolBlock # <<>>
            THEN getBlockForkOrigin(blocks, mempool, previousMempoolBlock[1])
       ELSE <<>>

\* The extraBlocks loop of _findBlockAttachPoint from block b on: the loop
\* test reads b.hash, a TypeError once find() has returned undefined.
RECURSIVE extraBlocks(_, _, _, _)
extraBlocks(mempool, b, forkedBlock, result) ==
    IF b = <<>> THEN [thrown |-> TRUE, blocks |-> <<>>]
    ELSE IF b[1].hash = forkedBlock.hash THEN [thrown |-> FALSE, blocks |-> result]
    ELSE extraBlocks(mempool, findMempoolBlock(mempool.blocks, b[1].prevHash),
                     forkedBlock, <<b[1]>> \o result)

AttachPoint(type, direction, forkedBlock, sideChainBlocks) ==
    [type |-> type, direction |-> direction, forkedBlock |-> forkedBlock,
     sideChainBlocks |-> sideChainBlocks]

findBlockAttachPoint(blocks, mempool, block) ==
    LET blockIndex == block.height - 1
        topBlockIndex == topBlockHeight(blocks) - 1
        lowest == IF topBlockIndex - UNDO_HEIGHT > 0 THEN topBlockIndex - UNDO_HEIGHT ELSE 0
        candidateTopMainChainBlockHash ==
            IF Len(blocks) > 0 THEN blocks[Len(blocks)].hash ELSE zeroHash
        forkedBlock == getBlockForkOrigin(blocks, mempool, block)
        extra == extraBlocks(mempool, <<block>>, forkedBlock[1], <<>>)
        sliceEnd == IF forkedBlock[1].height < Len(blocks) THEN forkedBlock[1].height
                    ELSE Len(blocks)
    IN IF blockIndex >= lowest /\ blockIndex <= topBlockIndex + 1
       THEN IF blockIndex = topBlockIndex + 1 /\ candidateTopMainChainBlockHash = block.prevHash
            THEN AttachPoint("mainChain", 0, <<>>, <<>>)
            ELSE IF forkedBlock # <<>>
                 THEN IF extra.thrown THEN AttachPoint("TypeError", 0, <<>>, <<>>)
                      ELSE AttachPoint("sideChain", 0, forkedBlock,
                                       SubSeq(blocks, 1, sliceEnd) \o extra.blocks)
                 ELSE IF block.height = 1
                      THEN AttachPoint("sideChain", 0, <<>>, <<block>>)
                      ELSE AttachPoint("dangling", 0, <<>>, <<>>)
       ELSE IF blockIndex < lowest THEN AttachPoint("outOfRange", -1, <<>>, <<>>)
            ELSE AttachPoint("outOfRange", 1, <<>>, <<>>)

\* _commitSideChainBlock reads the undeclared name sidechainBlocks before it
\* assigns anything: a ReferenceError, with dbs, blocks and mempool as they
\* were.
commitSideChainBlock(dbs, blocks, mempool, block, forkedBlock, sideChainBlocks) ==
    Thrown("ReferenceError")

\* (dbs.length > 0) ? dbs[dbs.length - 1] : DEFAULT_DB
topDb(dbs) ==
    IF Len(dbs) > 0 THEN dbs[Len(dbs)] ELSE DEFAULT_DB

\* The push when the commit has written into the snapshot on top of the
\* stack instead of a copy of it: newDb is that snapshot.
pushDbInPlace(dbs, newDb) ==
    LastN(Append(IF Len(dbs) > 0 THEN [dbs EXCEPT ![Len(dbs)] = newDb] ELSE dbs, newDb),
          UNDO_HEIGHT)

\* dbs.push(newDb); while (dbs.length > UNDO_HEIGHT) dbs.shift()
pushDb(dbs, newDb) ==
    LastN(Append(dbs, newDb), UNDO_HEIGHT)

\* The block put at the head of the buffer instead of its tail.
unshiftBlock(blocks, block) ==
    LastN(<<block>> \o blocks, CHARGE_SETTLE_BLOCKS)

\* blocks.push(block); while (blocks.length > CHARGE_SETTLE_BLOCKS) blocks.shift()
pushBlock(blocks, block) ==
    LastN(Append(blocks, block), CHARGE_SETTLE_BLOCKS)

\* ------------------------------------------------------------ events

\* What a listener finds when this.emit(type, ...) calls it: whether the
\* emitted block is the tail, whether the newest snapshot is the block's,
\* whether the emitted message is in the mempool, and whether the handler
\* has called this.saveState() by then.
Event(type, hash, tailIsBlock, snapshotPushed, inMempool, saveEnqueued) ==
    [type |-> type, hash |-> hash, tailIsBlock |-> tailIsBlock,
     snapshotPushed |-> snapshotPushed, inMempool |-> inMempool,
     saveEnqueued |-> saveEnqueued]

emitBlock(block, newDb, dbs, blocks, saveEnqueued) ==
    Event("block", block.hash,
          Len(blocks) > 0 /\ blocks[Len(blocks)] = block,
          Len(dbs) > 0 /\ dbs[Len(dbs)] = newDb,
          FALSE, saveEnqueued)

emitMessage(message, mempool) ==
    Event("message", message.hash, FALSE, FALSE,
          \E i \in 1..Len(mempool.messages) : mempool.messages[i] = message,
          FALSE)

\* ------------------------------------------------------------ addBlock, addMessage

\* What a call leaves behind: its return value (null is OK), the fields of
\* the node, whether it called this.saveState(), and the events it emitted.
Outcome(result, dbs, blocks, mempool, saveState, events) ==
    [result |-> result, dbs |-> dbs, blocks |-> blocks, mempool |-> mempool,
     saveState |-> saveState, events |-> events]

\* The event emitted before the pushes and the save.
announceThenPush(dbs, blocks, block, newDb, newMempool) ==
    Outcome(OK, pushDb(dbs, newDb), pushBlock(blocks, block), newMempool, TRUE,
            <<emitBlock(block, newDb, dbs, blocks, FALSE)>>)

\* dbs.push(newDb), blocks.push(block) with their trimming, the mempool
\* assignment, this.saveState() and this.emit('block', block), in the order
\* of the main chain branch of addBlock.
pushAndAnnounce(dbs, blocks, block, newDb, newMempool) ==
    Outcome(OK, pushDb(dbs, newDb), pushBlock(blocks, block), newMempool, TRUE,
            <<emitBlock(block, newDb, pushDb(dbs, newDb), pushBlock(blocks, block), TRUE)>>)

commitAndAnnounce(dbs, blocks, block, commit) ==
    pushAndAnnounce(dbs, blocks, block, commit.newDb, commit.newMempool)

\* A return that has assigned nothing and emitted nothing.
Rejected(dbs, blocks, mempool, result) ==
    Outcome(result, dbs, blocks, mempool, FALSE, <<>>)

\* The block committed whatever block.verify returned.
commitThenVerify(dbs, blocks, mempool, block, error) ==
    [commitAndAnnounce(dbs, blocks, block,
                       commitMainChainBlock(topDb(dbs), blocks, mempool, block))
       EXCEPT !.result = error]

\* A main chain branch that validates the messages of the block against
\* the messages that wait as well.
mainChainBranchWithMempool(dbs, blocks, mempool, block, error) ==
    LET pending == verifyMessages(block, topDb(dbs), blocks, mempool, 1) IN
    IF error = OK /\ pending = OK
    THEN commitAndAnnounce(dbs, blocks, block,
                           commitMainChainBlock(topDb(dbs), blocks, mempool, block))
    ELSE Rejected(dbs, blocks, mempool, IF error # OK THEN error ELSE pending)

\* The main chain branch of addBlock, error being what block.verify returned.
mainChainBranch(dbs, blocks, mempool, block, error) ==
    IF error = OK
    THEN commitAndAnnounce(dbs, blocks, block,
                           commitMainChainBlock(topDb(dbs), blocks, mempool, block))
    ELSE Rejected(dbs, blocks, mempool, error)

\* The side chain branch of addBlock, error being what block.verify returned.
sideChainBranch(dbs, blocks, mempool, block, attachPoint, error) ==
    IF error = OK
    THEN Rejected(dbs, blocks, mempool,
                  commitSideChainBlock(dbs, blocks, mempool, block,
                                       attachPoint.forkedBlock, attachPoint.sideChainBlocks))
    ELSE Rejected(dbs, blocks, mempool, error)

\* Every block validated as a candidate tail, whatever its attach point.
attachUnclassified(dbs, blocks, mempool, block, attachPoint) ==
    mainChainBranch(dbs, blocks, mempool, block, BlockVerify(block, topDb(dbs), blocks))

\* addBlock from its attach point on.
attachBlock(dbs, blocks, mempool, block, attachPoint) ==
    CASE attachPoint.type = "mainChain" ->
             mainChainBranch(dbs, blocks, mempool, block,
                             BlockVerify(block, topDb(dbs), blocks))
      [] attachPoint.type = "sideChain" ->
             sideChainBranch(dbs, blocks, mempool, block, attachPoint,
                             BlockVerify(block, topDb(dbs), attachPoint.sideChainBlocks))
      [] attachPoint.type = "outOfRange" ->
             IF attachPoint.direction = -1
             THEN Rejected(dbs, blocks, mempool, SoftErr(400, "stale block"))
             ELSE Rejected(dbs, blocks, mempool, SoftErr(400, "desynchronized block"))
      [] attachPoint.type = "dangling" ->
             Rejected(dbs, blocks, mempool, SoftErr(400, "dangling block"))
      [] attachPoint.type = "TypeError" ->
             Rejected(dbs, blocks, mempool, Thrown("TypeError"))

addBlock(dbs, blocks, mempool, block) ==
    IF checkBlockExists(blocks, mempool, block)
    THEN Rejected(dbs, blocks, mempool, SoftErr(400, "block exists"))
    ELSE attachBlock(dbs, blocks, mempool, block,
                     findBlockAttachPoint(blocks, mempool, block))

\* mempool.messages.push(message); this.emit('message', message)
pushMessage(dbs, blocks, mempool, message, messages) ==
    Outcome(OK, dbs, blocks, [mempool EXCEPT !.messages = messages], FALSE,
            <<emitMessage(message, [mempool EXCEPT !.messages = messages])>>)

\* addMessage past its two guards, error being what message.verify returned.
verifiedMessage(dbs, blocks, mempool, message, error) ==
    IF error = OK
    THEN pushMessage(dbs, blocks, mempool, message, Append(mempool.messages, message))
    ELSE Rejected(dbs, blocks, mempool, error)

\* addMessage without its look at the hashes already pending.
addMessageAgain(db, dbs, blocks, mempool, message) ==
    IF Len(mempool.messages) < MESSAGES_PER_BLOCK_MAX
    THEN verifiedMessage(dbs, blocks, mempool, message,
                         MessageVerify(message, db, blocks, mempool, <<>>))
    ELSE Rejected(dbs, blocks, mempool, Err(503, "mempool full"))

\* addMessage without its look at the length of the mempool.
addMessageUnbounded(db, dbs, blocks, mempool, message) ==
    IF ~\E i \in 1..Len(mempool.messages) : mempool.messages[i].hash = message.hash
    THEN verifiedMessage(dbs, blocks, mempool, message,
                         MessageVerify(message, db, blocks, mempool, <<>>))
    ELSE Rejected(dbs, blocks, mempool, OK)

addMessage(db, dbs, blocks, mempool, message) ==
    IF Len(mempool.messages) < MESSAGES_PER_BLOCK_MAX
    THEN IF ~\E i \in 1..Len(mempool.messages) : mempool.messages[i].hash = message.hash
         THEN verifiedMessage(dbs, blocks, mempool, message,
                              MessageVerify(message, db, blocks, mempool, <<>>))
         ELSE Rejected(dbs, blocks, mempool, OK)
    ELSE Rejected(dbs, blocks, mempool, Err(503, "mempool full"))

submitMessage(dbs, blocks, mempool, message) ==
    addMessage(topDb(dbs), dbs, blocks, mempool, message)

\* ------------------------------------------------------------ persistence

\* The content of a db-<height>.json file: JSON.stringify(db) turns Infinity
\* into null as _clone does; JSON.stringify(undefined) is not JSON at all
\* and JSON.parse rejects what was written for it.
DbFile(db) ==
    [defined |-> TRUE, db |-> clone(db)]

UndefinedFile ==
    [defined |-> FALSE, db |-> clone(DEFAULT_DB)]

RemoveKey(f, k) ==
    [x \in DOMAIN f \ {k} |-> f[x]]

WriteKey(f, k, v) ==
    [x \in DOMAIN f \cup {k} |-> IF x = k THEN v ELSE f[x]]

BlockWrite(height, block) ==
    [dir |-> "blocks", height |-> height, block |-> <<block>>, file |-> <<>>]

DbWrite(height, file) ==
    [dir |-> "db", height |-> height, block |-> <<>>, file |-> <<file>>]

\* _writeNewFiles: a block file for every block in memory and a db file for
\* each of the last UNDO_HEIGHT blocks, with the snapshot at the same offset
\* from the zeroth of them, all stringified at the call and written
\* atomically in any order.  A write of what the file already holds leaves
\* the directory as it is and is not kept among the pending writes.
writeNewFiles(blocks, dbs, blockFiles, dbFiles) ==
    LET zerothDbLocalBlockIndex == IF Len(blocks) - UNDO_HEIGHT > 0
                                   THEN Len(blocks) - UNDO_HEIGHT ELSE 0
        dbAt(i) == IF At(dbs, i - zerothDbLocalBlockIndex) = <<>> THEN UndefinedFile
                   ELSE DbFile(At(dbs, i - zerothDbLocalBlockIndex)[1])
        blockWrites == { BlockWrite(blocks[i + 1].height, blocks[i + 1]) :
                           i \in { j \in 0..(Len(blocks) - 1) :
                                     \/ blocks[j + 1].height \notin DOMAIN blockFiles
                                     \/ blockFiles[blocks[j + 1].height] # blocks[j + 1] } }
        dbWrites == { DbWrite(blocks[i + 1].height, dbAt(i)) :
                        i \in { j \in zerothDbLocalBlockIndex..(Len(blocks) - 1) :
                                  \/ blocks[j + 1].height \notin DOMAIN dbFiles
                                  \/ dbFiles[blocks[j + 1].height] # dbAt(j) } }
    IN blockWrites \cup dbWrites

\* _removeDbFiles at its readdir callback: every db file but those of the
\* last UNDO_HEIGHT blocks then in memory.
removeDbFiles(blocks, dbFiles) ==
    LET zerothDbLocalBlockIndex == IF Len(blocks) - UNDO_HEIGHT > 0
                                   THEN Len(blocks) - UNDO_HEIGHT ELSE 0
        keepDbFiles == { blocks[i + 1].height : i \in zerothDbLocalBlockIndex..(Len(blocks) - 1) }
    IN { [dir |-> "db", height |-> h] : h \in DOMAIN dbFiles \ keepDbFiles }

\* _removeBlockFiles at its readdir callback: the block files above the
\* top height then in memory.
removeBlockFiles(blocks, blockFiles) ==
    { [dir |-> "blocks", height |-> h] :
        h \in { x \in DOMAIN blockFiles : ~(x >= 1 /\ x <= topBlockHeight(blocks)) } }

SaveJob(stage, writes, listedDb, listedBlocks, unlinks) ==
    [stage |-> stage, writes |-> writes, listedDb |-> listedDb,
     listedBlocks |-> listedBlocks, unlinks |-> unlinks]

NoJob ==
    SaveJob("idle", {}, FALSE, FALSE, {})

\* _doSave up to its first asynchronous step.
doSave(blocks, dbs, blockFiles, dbFiles) ==
    LET writes == writeNewFiles(blocks, dbs, blockFiles, dbFiles)
    IN SaveJob(IF writes = {} THEN "remove" ELSE "write", writes, FALSE, FALSE, {})

\* A saveState that forgets a request made while a save is running.
recurseDropping(saveStateRunning, queued, saveJob, blocks, dbs, blockFiles, dbFiles) ==
    IF ~saveStateRunning
    THEN [saveStateRunning |-> TRUE, queued |-> queued,
          saveJob |-> doSave(blocks, dbs, blockFiles, dbFiles)]
    ELSE [saveStateRunning |-> saveStateRunning, queued |-> queued, saveJob |-> saveJob]

\* A saveState that starts a save whether or not one is running.
recurseUnguarded(saveStateRunning, queued, saveJob, blocks, dbs, blockFiles, dbFiles) ==
    [saveStateRunning |-> TRUE, queued |-> queued,
     saveJob |-> doSave(blocks, dbs, blockFiles, dbFiles)]

\* _recurse, the function this.saveState is: start a save, or note that one
\* is wanted when the running one ends.
recurse(saveStateRunning, queued, saveJob, blocks, dbs, blockFiles, dbFiles) ==
    IF ~saveStateRunning
    THEN [saveStateRunning |-> TRUE, queued |-> queued,
          saveJob |-> doSave(blocks, dbs, blockFiles, dbFiles)]
    ELSE [saveStateRunning |-> saveStateRunning, queued |-> TRUE, saveJob |-> saveJob]

\* bestBlockHeight of loadState: the end of the run of block files 1, 2, ...
\* looked for among as many heights as there are files.
RECURSIVE bestBlockHeightFrom(_, _)
bestBlockHeightFrom(blockFiles, height) ==
    IF height > Cardinality(DOMAIN blockFiles) THEN Cardinality(DOMAIN blockFiles)
    ELSE IF height \notin DOMAIN blockFiles THEN height - 1
    ELSE bestBlockHeightFrom(blockFiles, height + 1)

bestBlockHeight(blockFiles) ==
    bestBlockHeightFrom(blockFiles, 1)

\* candidateHeights of _readDbFiles, built by unshift from the best height
\* down.
RECURSIVE dbCandidateHeights(_, _, _, _)
dbCandidateHeights(dbFiles, best, i, result) ==
    IF i >= best - UNDO_HEIGHT /\ i > 0 /\ i \in DOMAIN dbFiles
    THEN dbCandidateHeights(dbFiles, best, i - 1, <<i>> \o result)
    ELSE result

\* candidateHeights of _readBlockFiles.
blockCandidateHeights(best) ==
    LET first == IF best - CHARGE_SETTLE_BLOCKS > 1 THEN best - CHARGE_SETTLE_BLOCKS ELSE 1
    IN [i \in 1..(best - first + 1) |-> first + i - 1]

\* loadState: the dbs and blocks it assigns, or a rejection when a db file
\* does not parse.
loadState(blockFiles, dbFiles) ==
    LET best == bestBlockHeight(blockFiles)
        dbHeights == dbCandidateHeights(dbFiles, best, best, <<>>)
        blockHeights == blockCandidateHeights(best)
    IN IF best > 0
       THEN IF \E i \in 1..Len(dbHeights) : ~dbFiles[dbHeights[i]].defined
            THEN [rejected |-> TRUE, dbs |-> <<>>, blocks |-> <<>>]
            ELSE [rejected |-> FALSE,
                  dbs |-> [i \in 1..Len(dbHeights) |-> dbFiles[dbHeights[i]].db],
                  blocks |-> [i \in 1..Len(blockHeights) |-> blockFiles[blockHeights[i]]]]
       ELSE [rejected |-> FALSE, dbs |-> <<>>, blocks |-> <<>>]

\* ------------------------------------------------------------ peers

MIN_NUM_LIVE_PEERS ==
    10

\* `http://${host}:${port}`
Url(host, port) ==
    <<"http://", host, ":", port>>

\* new Peer(url).  The object is named by id; null is 0 for the handles
\* _connection and _reconnectTimeout and FALSE for the two flags.
Peer(id, url) ==
    [id |-> id, url |-> url, enabled |-> FALSE, connection |-> 0,
     reconnectTimeout |-> 0, redownloadInterval |-> FALSE]

\* A connection new ws(...) made for a Peer object.  It is "connecting"
\* until 'open'; "open" with the 'message' and 'close' listeners of the
\* peer on it; "errored" once an open connection has emitted 'error' and
\* still has 'close' to emit; "closing" after close() on an open one;
\* "aborted" after close() before 'open'.
Socket(id, peer, state) ==
    [id |-> id, peer |-> peer, state |-> state]

\* A setTimeout of _retry that has not fired.
Timeout(id, peer) ==
    [id |-> id, peer |-> peer]

\* The Peer objects in this.peers with the connections and the timers of
\* all Peer objects, in this.peers or not.
Net(peers, sockets, timeouts) ==
    [peers |-> peers, sockets |-> sockets, timeouts |-> timeouts]

\* A handle none of the records carries.
freshId(records) ==
    CHOOSE n \in 1..(Cardinality(records) + 1) : \A r \in records : r.id # n

\* connection.close()
closeSocket(sockets, id) ==
    { IF s.id # id THEN s
      ELSE IF s.state = "open" THEN Socket(s.id, s.peer, "closing")
      ELSE IF s.state = "connecting" THEN Socket(s.id, s.peer, "aborted")
      ELSE s : s \in sockets }

\* peer.enable(c) for the i-th of this.peers: _listen() opens a connection
\* and _download() sets the pull interval.
enable(net, i) ==
    LET connection == freshId(net.sockets) IN
    Net([net.peers EXCEPT ![i] = [@ EXCEPT !.enabled = TRUE,
                                           !.connection = connection,
                                           !.redownloadInterval = TRUE]],
        net.sockets \cup {Socket(connection, net.peers[i].id, "connecting")},
        net.timeouts)

\* peer.disable() for the i-th of this.peers.
disable(net, i) ==
    LET peer == net.peers[i] IN
    Net([net.peers EXCEPT ![i] = [@ EXCEPT !.enabled = FALSE,
                                           !.reconnectTimeout = 0,
                                           !.redownloadInterval = FALSE]],
        IF peer.connection # 0 THEN closeSocket(net.sockets, peer.connection)
        ELSE net.sockets,
        { t \in net.timeouts : t.id # peer.reconnectTimeout })

\* The index in this.peers of the Peer object, 0 when it is not there.
indexOfPeer(peers, id) ==
    IF \E i \in 1..Len(peers) : peers[i].id = id
    THEN CHOOSE i \in 1..Len(peers) : peers[i].id = id
    ELSE 0

\* The 'error' listener and the 'close' listener of a connection of the
\* Peer object: this._connection = null, and _retry() while enabled.  An
\* object that is not in this.peers was disabled when it was removed.
connectionLost(net, id) ==
    LET i == indexOfPeer(net.peers, id)
        reconnectTimeout == freshId(net.timeouts)
    IN IF i = 0 THEN net
       ELSE IF net.peers[i].enabled
       THEN Net([net.peers EXCEPT ![i] = [@ EXCEPT !.connection = 0,
                                                  !.reconnectTimeout = reconnectTimeout]],
                net.sockets,
                net.timeouts \cup {Timeout(reconnectTimeout, id)})
       ELSE Net([net.peers EXCEPT ![i] = [@ EXCEPT !.connection = 0]],
                net.sockets, net.timeouts)

\* The callback of the setTimeout of _retry: this._reconnectTimeout = null
\* and _recurse() opens a connection.
reconnect(net, timeout) ==
    LET i == indexOfPeer(net.peers, timeout.peer)
        connection == freshId(net.sockets)
    IN Net(IF i = 0 THEN net.peers
           ELSE [net.peers EXCEPT ![i] = [@ EXCEPT !.reconnectTimeout = 0,
                                                  !.connection = connection]],
           net.sockets \cup {Socket(connection, timeout.peer, "connecting")},
           net.timeouts \ {timeout})

enabledPeers(peers) ==
    { i \in 1..Len(peers) : peers[i].enabled }

disabledPeers(peers) ==
    { i \in 1..Len(peers) : ~peers[i].enabled }

\* A loop of refreshLivePeers that goes on until no peer is disabled.
refreshChoicesAll(peers) ==
    {disabledPeers(peers)}

\* The sets of disabled peers the loop of refreshLivePeers can enable with
\* its random picks: as many as are missing, or all there are.
refreshChoices(peers) ==
    LET missing == MIN_NUM_LIVE_PEERS - Cardinality(enabledPeers(peers))
        wanted == IF missing < 0 THEN 0
                  ELSE IF missing < Cardinality(disabledPeers(peers)) THEN missing
                  ELSE Cardinality(disabledPeers(peers))
    IN { chosen \in SUBSET disabledPeers(peers) : Cardinality(chosen) = wanted }

\* refreshLivePeers() when its picks are the chosen peers.
RECURSIVE refreshLivePeers(_, _)
refreshLivePeers(net, chosen) ==
    IF chosen = {} THEN net
    ELSE LET i == CHOOSE x \in chosen : \A y \in chosen : x <= y
         IN refreshLivePeers(enable(net, i), chosen \ {i})

\* The result of a call on the peers: what it left in this.peers, the
\* events it emitted, and whether it called this.savePeers().
PeersOut(net, events, savePeers) ==
    [net |-> net, events |-> events, savePeers |-> savePeers]

\* addPeer(url) on a node whose fields host and port are host and port.
addPeer(net, host, port, url, id, chosen) ==
    IF url # Url(host, port) /\ ~\E i \in 1..Len(net.peers) : net.peers[i].url = url
    THEN PeersOut(refreshLivePeers(Net(Append(net.peers, Peer(id, url)),
                                       net.sockets, net.timeouts), chosen),
                  <<[type |-> "peer", url |-> url]>>, TRUE)
    ELSE PeersOut(net, <<>>, FALSE)

\* removePeer(url)
removePeer(net, url, chosen) ==
    IF \E i \in 1..Len(net.peers) : net.peers[i].url = url
    THEN LET index == CHOOSE i \in 1..Len(net.peers) :
                          /\ net.peers[i].url = url
                          /\ \A j \in 1..(i - 1) : net.peers[j].url # url
             disabled == disable(net, index)
         IN PeersOut(refreshLivePeers(Net(RemoveAt(disabled.peers, index),
                                          disabled.sockets, disabled.timeouts), chosen),
                     <<>>, TRUE)
    ELSE PeersOut(net, <<>>, FALSE)

\* loadPeers(): a Peer for every line of peers.txt.
loadPeers(peersFile) ==
    [i \in 1..Len(peersFile) |-> Peer(i, peersFile[i])]

\* _doSave of savePeers: the urls of this.peers, joined when it is called.
peersString(peers) ==
    [i \in 1..Len(peers) |-> peers[i].url]

\* _recurse of savePeers, the function this.savePeers is.
recursePeers(savePeersRunning, peersQueued, savePeersJob, peers) ==
    IF ~savePeersRunning
    THEN [savePeersRunning |-> TRUE, peersQueued |-> peersQueued,
          savePeersJob |-> <<peersString(peers)>>]
    ELSE [savePeersRunning |-> savePeersRunning, peersQueued |-> TRUE,
          savePeersJob |-> savePeersJob]

\* ------------------------------------------------------------ the node

VARIABLES
    dbs,               \* this.dbs
    blocks,            \* this.blocks
    mempool,           \* this.mempool
    saveStateRunning,  \* this.saveStateRunning
    queued,            \* the queued flag of the saveState closure
    saveJob,           \* the save in flight: pending writes, readdirs, unlinks
    blockFiles,        \* <dataDirectory>/blocks: height -> block
    dbFiles,           \* <dataDirectory>/db: height -> file content
    phase,             \* "booting" until loadState has run, then "running" or "failed"
    crashes,           \* process crashes so far
    accepted,          \* blocks this process has accepted
    fromEmpty,         \* the chain in memory was grown from the empty chain by this process
    lastCall,          \* the addBlock / submitMessage call that has just returned
    emitted,           \* the events that call emitted
    peers,             \* this.peers
    sockets,           \* the WebSocket connections of Peer objects that have not ended
    timeouts,          \* the reconnect timers that have not fired
    savePeersRunning,  \* this.savePeersRunning
    peersQueued,       \* the queued flag of the savePeers closure
    savePeersJob,      \* the content fs.writeFile is writing to peers.txt
    peersFile,         \* <dataDirectory>/peers.txt
    mining,            \* mineImmediate is set: the miner runs
    mineAddress,       \* mineAddress: the address the miner pays, or null
    mineRetries,       \* the pending calls of _mine that mineImmediate does not hold
    server,            \* the http server: "none", "listening", "closing", "closed"
    shutdown           \* the call of the function listen() resolves to

vars ==
    <<dbs, blocks, mempool, saveStateRunning, queued, saveJob, blockFiles, dbFiles,
      phase, crashes, accepted, fromEmpty, lastCall, emitted,
      peers, sockets, timeouts, savePeersRunning, peersQueued, savePeersJob, peersFile,
      mining, mineAddress, mineRetries, server, shutdown>>

chainVars ==
    <<dbs, blocks, mempool, saveStateRunning, queued, saveJob, blockFiles, dbFiles,
      phase, crashes, accepted, fromEmpty, lastCall, emitted>>

peerVars ==
    <<peers, sockets, timeouts, savePeersRunning, peersQueued, savePeersJob, peersFile>>

lifeVars ==
    <<mining, mineAddress, mineRetries, server, shutdown>>

\* A process accepts at most this many blocks.
MaxHeight ==
    15

\* The process crashes at most this many times.
MaxCrashes ==
    1

\* Blocks are accepted while fewer than this many blocks in memory differ
\* from the block files.
MaxBacklog ==
    2

EmptyFiles ==
    [x \in {} |-> 0]

Memory(d, b, m, running, q, job) ==
    [dbs |-> d, blocks |-> b, mempool |-> m, saveStateRunning |-> running,
     queued |-> q, saveJob |-> job]

NoCall ==
    [op |-> "none", block |-> <<>>, message |-> <<>>, url |-> <<>>, result |-> OK,
     pre |-> <<>>]

Call(op, block, message, result, pre) ==
    [op |-> op, block |-> block, message |-> message, url |-> <<>>, result |-> result,
     pre |-> <<pre>>]

\* The peers, their connections and timers and the save of peers.txt as a
\* call on the peers found them.
PeerMemory(p, s, t, running, q, job) ==
    [peers |-> p, sockets |-> s, timeouts |-> t, savePeersRunning |-> running,
     peersQueued |-> q, savePeersJob |-> job]

PeerCall(op, url, pre) ==
    [op |-> op, block |-> <<>>, message |-> <<>>, url |-> <<url>>, result |-> OK,
     pre |-> <<pre>>]

\* The function listen() resolves to has not been called.
NoShutdown ==
    [called |-> FALSE, saveWait |-> "none", done |-> FALSE]

\* new Crds() on an empty data directory, before listen().
Init ==
    /\ dbs = <<>>
    /\ blocks = <<>>
    /\ mempool = DEFAULT_MEMPOOL
    /\ saveStateRunning = FALSE
    /\ queued = FALSE
    /\ saveJob = NoJob
    /\ blockFiles = EmptyFiles
    /\ dbFiles = EmptyFiles
    /\ phase = "booting"
    /\ crashes = 0
    /\ accepted = 0
    /\ fromEmpty = TRUE
    /\ lastCall = NoCall
    /\ emitted = <<>>
    /\ peers = <<>>
    /\ sockets = {}
    /\ timeouts = {}
    /\ savePeersRunning = FALSE
    /\ peersQueued = FALSE
    /\ savePeersJob = <<>>
    /\ peersFile = <<>>
    /\ mining = FALSE
    /\ mineAddress = NULL
    /\ mineRetries = 0
    /\ server = "none"
    /\ shutdown = NoShutdown

\* listen(): loadState() and loadPeers(), then the server listens and
\* refreshLivePeers() enables the peers, before the server accepts anything.
LoadState ==
    LET loaded == loadState(blockFiles, dbFiles) IN
    /\ phase = "booting"
    /\ phase' = IF loaded.rejected THEN "failed" ELSE "running"
    /\ dbs' = loaded.dbs
    /\ blocks' = loaded.blocks
    /\ fromEmpty' = (bestBlockHeight(blockFiles) = 0)
    /\ IF loaded.rejected
       THEN /\ peers' = loadPeers(peersFile)
            /\ UNCHANGED <<sockets, server>>
       ELSE \E chosen \in refreshChoices(loadPeers(peersFile)) :
                LET net == refreshLivePeers(Net(loadPeers(peersFile), {}, {}), chosen) IN
                /\ peers' = net.peers
                /\ sockets' = net.sockets
                /\ server' = "listening"
    /\ UNCHANGED <<mempool, saveStateRunning, queued, saveJob, blockFiles, dbFiles,
                   crashes, accepted, lastCall, emitted, timeouts, savePeersRunning,
                   peersQueued, savePeersJob, peersFile, mining, mineAddress,
                   mineRetries, shutdown>>

\* A call returns: what it assigned, the save it started or queued, the
\* events it emitted and its return value.
Returned(op, block, message, out, save) ==
    /\ phase = "running"
    /\ lastCall = NoCall
    /\ dbs' = out.dbs
    /\ blocks' = out.blocks
    /\ mempool' = out.mempool
    /\ IF out.saveState
       THEN /\ saveStateRunning' = save.saveStateRunning
            /\ queued' = save.queued
            /\ saveJob' = save.saveJob
            /\ accepted' = accepted + 1
       ELSE UNCHANGED <<saveStateRunning, queued, saveJob, accepted>>
    /\ lastCall' = Call(op, block, message, out.result,
                        Memory(dbs, blocks, mempool, saveStateRunning, queued, saveJob))
    /\ emitted' = out.events
    /\ UNCHANGED <<blockFiles, dbFiles, phase, crashes, fromEmpty, peerVars, lifeVars>>

\* this.saveState() once the call has assigned out.
savedAfter(out) ==
    recurse(saveStateRunning, queued, saveJob, out.blocks, out.dbs, blockFiles, dbFiles)

Handled(op, block, message, out) ==
    Returned(op, block, message, out, savedAfter(out))

\* addBlock(block), its saveState() call included, up to its return.
AddBlock(block) ==
    Handled("addBlock", <<block>>, <<>>, addBlock(dbs, blocks, mempool, block))

\* submitMessage(message) up to its return.
SubmitMessage(message) ==
    Handled("submitMessage", <<>>, <<message>>, submitMessage(dbs, blocks, mempool, message))

\* block.verify(db, this.blocks) with db the tip snapshot, as addBlock calls
\* it for a candidate tail; it assigns nothing.
VerifyBlock(block) ==
    Handled("verify", <<block>>, <<>>,
            Rejected(dbs, blocks, mempool, BlockVerify(block, topDb(dbs), blocks)))

\* The caller has the return value and the listeners have run; no callback
\* of the event loop runs before that.
Return ==
    /\ lastCall # NoCall
    /\ lastCall' = NoCall
    /\ emitted' = <<>>
    /\ UNCHANGED <<dbs, blocks, mempool, saveStateRunning, queued, saveJob, blockFiles,
                   dbFiles, phase, crashes, accepted, fromEmpty, peerVars, lifeVars>>

\* One writeFileAtomic of _writeNewFiles completes; after the last one
\* _removeOldFiles starts its two readdirs.
SaveWriteFile ==
    \E w \in saveJob.writes :
        /\ lastCall = NoCall
        /\ saveJob.stage = "write"
        /\ IF w.dir = "blocks"
           THEN /\ blockFiles' = WriteKey(blockFiles, w.height, w.block[1])
                /\ UNCHANGED dbFiles
           ELSE /\ dbFiles' = WriteKey(dbFiles, w.height, w.file[1])
                /\ UNCHANGED blockFiles
        /\ saveJob' = [saveJob EXCEPT !.writes = @ \ {w},
                                      !.stage = IF saveJob.writes = {w} THEN "remove" ELSE @]
        /\ UNCHANGED <<dbs, blocks, mempool, saveStateRunning, queued, phase, crashes,
                       accepted, fromEmpty, lastCall, emitted, peerVars, lifeVars>>

\* The readdir callback of _removeDbFiles.
SaveReaddirDbs ==
    /\ lastCall = NoCall
    /\ saveJob.stage = "remove"
    /\ ~saveJob.listedDb
    /\ saveJob' = [saveJob EXCEPT !.listedDb = TRUE,
                                  !.unlinks = @ \cup removeDbFiles(blocks, dbFiles)]
    /\ UNCHANGED <<dbs, blocks, mempool, saveStateRunning, queued, blockFiles, dbFiles,
                   phase, crashes, accepted, fromEmpty, lastCall, emitted, peerVars, lifeVars>>

\* The readdir callback of _removeBlockFiles.
SaveReaddirBlocks ==
    /\ lastCall = NoCall
    /\ saveJob.stage = "remove"
    /\ ~saveJob.listedBlocks
    /\ saveJob' = [saveJob EXCEPT !.listedBlocks = TRUE,
                                  !.unlinks = @ \cup removeBlockFiles(blocks, blockFiles)]
    /\ UNCHANGED <<dbs, blocks, mempool, saveStateRunning, queued, blockFiles, dbFiles,
                   phase, crashes, accepted, fromEmpty, lastCall, emitted, peerVars, lifeVars>>

\* One fs.unlink completes (ENOENT is not an error).
SaveUnlink ==
    \E u \in saveJob.unlinks :
        /\ lastCall = NoCall
        /\ saveJob.stage = "remove"
        /\ IF u.dir = "blocks"
           THEN /\ blockFiles' = RemoveKey(blockFiles, u.height)
                /\ UNCHANGED dbFiles
           ELSE /\ dbFiles' = RemoveKey(dbFiles, u.height)
                /\ UNCHANGED blockFiles
        /\ saveJob' = [saveJob EXCEPT !.unlinks = @ \ {u}]
        /\ UNCHANGED <<dbs, blocks, mempool, saveStateRunning, queued, phase, crashes,
                       accepted, fromEmpty, lastCall, emitted, peerVars, lifeVars>>

\* The callback of _doSave: the save is over, and the queued one starts or
\* the callbacks in saveStateCbs are called.
SaveDone ==
    LET again == recurse(FALSE, FALSE, NoJob, blocks, dbs, blockFiles, dbFiles) IN
    /\ lastCall = NoCall
    /\ saveJob.stage = "remove"
    /\ saveJob.listedDb /\ saveJob.listedBlocks /\ saveJob.unlinks = {}
    /\ IF queued
       THEN /\ saveStateRunning' = again.saveStateRunning
            /\ saveJob' = again.saveJob
       ELSE /\ saveStateRunning' = FALSE
            /\ saveJob' = NoJob
    /\ queued' = FALSE
    /\ shutdown' = IF ~queued /\ shutdown.saveWait = "waiting"
                   THEN [shutdown EXCEPT !.saveWait = "done"] ELSE shutdown
    /\ UNCHANGED <<dbs, blocks, mempool, blockFiles, dbFiles, phase, crashes, accepted, fromEmpty,
                   lastCall, emitted, peerVars, mining, mineAddress, mineRetries, server>>

\* The process dies and a new one is started on the same data directory:
\* the files stay, everything in memory is as new Crds() makes it.
Crash ==
    /\ phase = "running"
    /\ lastCall = NoCall
    /\ crashes < MaxCrashes
    /\ crashes' = crashes + 1
    /\ accepted' = 0
    /\ dbs' = <<>>
    /\ blocks' = <<>>
    /\ mempool' = DEFAULT_MEMPOOL
    /\ saveStateRunning' = FALSE
    /\ queued' = FALSE
    /\ saveJob' = NoJob
    /\ phase' = "booting"
    /\ fromEmpty' = FALSE
    /\ peers' = <<>>
    /\ sockets' = {}
    /\ timeouts' = {}
    /\ savePeersRunning' = FALSE
    /\ peersQueued' = FALSE
    /\ savePeersJob' = <<>>
    /\ mining' = FALSE
    /\ mineAddress' = NULL
    /\ mineRetries' = 0
    /\ server' = "none"
    /\ shutdown' = NoShutdown
    /\ UNCHANGED <<blockFiles, dbFiles, peersFile, lastCall, emitted>>

\* ---- the peers

\* An id for a new Peer object that no connection and no timer belongs to.
freshPeer ==
    freshId({ [id |-> peers[i].id] : i \in 1..Len(peers) }
            \cup { [id |-> s.peer] : s \in sockets }
            \cup { [id |-> t.peer] : t \in timeouts })

\* A call on the peers returns: what it left in this.peers, the save of
\* peers.txt it started or queued, and the events it emitted.
PeersReturned(op, url, out) ==
    LET save == recursePeers(savePeersRunning, peersQueued, savePeersJob, out.net.peers) IN
    /\ phase = "running"
    /\ lastCall = NoCall
    /\ peers' = out.net.peers
    /\ sockets' = out.net.sockets
    /\ timeouts' = out.net.timeouts
    /\ IF out.savePeers
       THEN /\ savePeersRunning' = save.savePeersRunning
            /\ peersQueued' = save.peersQueued
            /\ savePeersJob' = save.savePeersJob
       ELSE UNCHANGED <<savePeersRunning, peersQueued, savePeersJob>>
    /\ lastCall' = PeerCall(op, url, PeerMemory(peers, sockets, timeouts, savePeersRunning,
                                                peersQueued, savePeersJob))
    /\ emitted' = out.events
    /\ UNCHANGED <<dbs, blocks, mempool, saveStateRunning, queued, saveJob, blockFiles,
                   dbFiles, phase, crashes, accepted, fromEmpty, peersFile, lifeVars>>

\* addPeer(url), its refreshLivePeers() and savePeers() calls included.
\* Nothing assigns this.host or this.port: both are undefined.
AddPeer(url) ==
    \E chosen \in refreshChoices(Append(peers, Peer(freshPeer, url))) :
        PeersReturned("addPeer", url,
                      addPeer(Net(peers, sockets, timeouts), UNDEF, UNDEF, url,
                              freshPeer, chosen))

\* removePeer(url), its refreshLivePeers() and savePeers() calls included.
RemovePeer(url) ==
    \E chosen \in refreshChoices(SelectSeq(peers, LAMBDA peer : peer.url # url)) :
        PeersReturned("removePeer", url,
                      removePeer(Net(peers, sockets, timeouts), url, chosen))

\* The callback of fs.writeFile in _doSave of savePeers: the save is over,
\* and the queued one starts.
SavePeersDone ==
    LET again == recursePeers(FALSE, FALSE, <<>>, peers) IN
    /\ lastCall = NoCall
    /\ savePeersRunning
    /\ peersFile' = savePeersJob[1]
    /\ IF peersQueued
       THEN /\ savePeersRunning' = again.savePeersRunning
            /\ savePeersJob' = again.savePeersJob
       ELSE /\ savePeersRunning' = FALSE
            /\ savePeersJob' = <<>>
    /\ peersQueued' = FALSE
    /\ UNCHANGED <<chainVars, peers, sockets, timeouts, lifeVars>>

\* The events of a connection run the listeners once a call has returned.
Delivered(net) ==
    /\ lastCall = NoCall
    /\ peers' = net.peers
    /\ sockets' = net.sockets
    /\ timeouts' = net.timeouts
    /\ UNCHANGED <<chainVars, savePeersRunning, peersQueued, savePeersJob, peersFile,
                   lifeVars>>

\* 'open': the 'message' and 'close' listeners are put on the connection.
SocketOpen ==
    \E s \in sockets :
        /\ s.state = "connecting"
        /\ Delivered(Net(peers, (sockets \ {s}) \cup {Socket(s.id, s.peer, "open")},
                         timeouts))

\* At most this many reconnect timers are pending.
MaxTimeouts ==
    2

\* At most this many connections have not ended.
MaxSockets ==
    2

\* A retry a listener may start fits the bound on the timers.
mayRetry ==
    Cardinality(timeouts) < MaxTimeouts

\* 'error'.  A connection that never opened ends with it, its 'close' has
\* no listener; an open one goes on to emit 'close'.
SocketError ==
    \E s \in sockets :
        /\ s.state \in {"connecting", "aborted", "open"}
        /\ mayRetry
        /\ Delivered(connectionLost(
               Net(peers,
                   IF s.state = "open"
                   THEN (sockets \ {s}) \cup {Socket(s.id, s.peer, "errored")}
                   ELSE sockets \ {s},
                   timeouts),
               s.peer))

\* 'close' of a connection that had opened.
SocketClose ==
    \E s \in sockets :
        /\ s.state \in {"open", "errored", "closing"}
        /\ mayRetry
        /\ Delivered(connectionLost(Net(peers, sockets \ {s}, timeouts), s.peer))

\* A reconnect timer fires, 1 s after _retry() set it.
TimeoutFires ==
    \E t \in timeouts :
        /\ Cardinality(sockets) < MaxSockets
        /\ Delivered(reconnect(Net(peers, sockets, timeouts), t))

\* ---- the miner and the shutdown

\* _startMine(address)
StartMine ==
    /\ phase = "running"
    /\ lastCall = NoCall
    /\ server = "listening"
    /\ ~mining
    /\ mining' = TRUE
    /\ mineAddress' = "A"
    /\ UNCHANGED <<chainVars, peerVars, mineRetries, server, shutdown>>

RECURSIVE disableAll(_, _)
disableAll(net, i) ==
    IF i > Len(net.peers) THEN net ELSE disableAll(disable(net, i), i + 1)

\* _stopMine(): POST /mine with address null. A pending call of _mine that
\* mineImmediate does not hold stays pending.
StopMine ==
    /\ phase = "running"
    /\ lastCall = NoCall
    /\ server = "listening"
    /\ mineAddress # NULL
    /\ mining' = FALSE
    /\ mineAddress' = NULL
    /\ UNCHANGED <<chainVars, peerVars, mineRetries, server, shutdown>>

\* The function listen() resolves to is called: _stopMine(), disable() on
\* every peer, server.close(), and the callback of the caller waits for the
\* server to have closed and for the save that is running, if one is.
Destroy ==
    LET net == disableAll(Net(peers, sockets, timeouts), 1) IN
    /\ phase = "running"
    /\ lastCall = NoCall
    /\ server = "listening"
    /\ ~shutdown.called
    /\ mining' = FALSE
    /\ mineAddress' = NULL
    /\ peers' = net.peers
    /\ sockets' = net.sockets
    /\ timeouts' = net.timeouts
    /\ server' = "closing"
    /\ shutdown' = [called |-> TRUE,
                    saveWait |-> IF saveStateRunning THEN "waiting" ELSE "done",
                    done |-> FALSE]
    /\ UNCHANGED <<chainVars, savePeersRunning, peersQueued, savePeersJob, peersFile,
                   mineRetries>>

\* The callback of server.close(): the server has closed.
ServerClosed ==
    /\ lastCall = NoCall
    /\ server = "closing"
    /\ server' = "closed"
    /\ UNCHANGED <<chainVars, peerVars, mining, mineAddress, mineRetries, shutdown>>

\* Both promises of the shutdown are resolved: the callback of the caller
\* is called.
ShutdownDone ==
    /\ lastCall = NoCall
    /\ shutdown.called /\ ~shutdown.done
    /\ server = "closed"
    /\ shutdown.saveWait = "done"
    /\ shutdown' = [shutdown EXCEPT !.done = TRUE]
    /\ UNCHANGED <<chainVars, peerVars, mining, mineAddress, mineRetries, server>>

\* ------------------------------------------------------------ inputs

tailHash(chain) ==
    IF Len(chain) > 0 THEN chain[Len(chain)].hash ELSE zeroHash

\* Math.max(now, minTimestamp) of doHash with a clock that has advanced by
\* TARGET_TIME since the tail block.
nextTimestamp(chain) ==
    IF Len(chain) > 0 THEN chain[Len(chain)].timestamp + TARGET_TIME ELSE TARGET_TIME

CeilDiv(a, b) ==
    (a + b - 1) \div b

\* Math.max(baseDifficulty - bonusDifficulty, MIN_DIFFICULTY) of doHash,
\* rounded up to an integer.
minedDifficulty(chain, messages) ==
    LET checkBlocks == LastN(chain, TARGET_BLOCKS)
        n == Len(checkBlocks)
        sorted == SortNumbers(Timestamps(checkBlocks))
        t == IF n = 0 THEN 0 ELSE (sorted[n] - sorted[1]) \div TimeUnit
        acc == SumSeq([i \in 1..n |-> checkBlocks[i].difficulty])
        base == IF n = 0 THEN 0
                ELSE IF t <= 1 THEN CeilDiv(2 * acc, n)
                ELSE IF t >= 4 THEN CeilDiv(acc, 2 * n)
                ELSE CeilDiv(2 * acc, n * t)
        wanted == base - getMessagesDifficulty(messages)
    IN IF wanted > MIN_DIFFICULTY THEN wanted ELSE MIN_DIFFICULTY

\* The block a miner finds on top of chain.
minedBlock(chain, messages, nonce) ==
    Block(tailHash(chain), topBlockHeight(chain) + 1, minedDifficulty(chain, messages),
          nextTimestamp(chain), messages, nonce)

\* The number of blocks in memory the block files do not hold.
backlog ==
    Cardinality({ i \in 1..Len(blocks) :
                    \/ blocks[i].height \notin DOMAIN blockFiles
                    \/ blockFiles[blocks[i].height] # blocks[i] })

\* Whether one more valid block is offered to this process.
mayGrow(maxHeight) ==
    /\ accepted < maxHeight
    /\ backlog < MaxBacklog

bogusHash ==
    Sha256(<<"bogus">>)

\* Blocks a peer can send that addBlock must turn down, each made from the
\* mined block b by one change.
rejectedBlocks(chain, b) ==
    LET tail == chain[Len(chain)]
        top == topBlockHeight(chain)
    IN {[b EXCEPT !.hash = bogusHash],
        Block(b.prevHash, b.height + 1, b.difficulty, b.timestamp, b.messages, b.nonce),
        Block(bogusHash, b.height, b.difficulty, b.timestamp, b.messages, b.nonce),
        Block(b.prevHash, b.height, b.difficulty, b.timestamp, b.messages, 0),
        Block(b.prevHash, b.height, MIN_DIFFICULTY - 1, b.timestamp, b.messages, b.nonce)}
       \cup (IF Len(chain) > 0
             THEN {tail,
                   chain[1],
                   Block(tail.prevHash, tail.height, tail.difficulty, tail.timestamp,
                         tail.messages, tail.nonce + 1),
                   Block(tail.prevHash, tail.height, tail.difficulty,
                         tail.timestamp + TimeUnit, tail.messages, tail.nonce),
                   Block(b.prevHash, b.height, b.difficulty, 0, b.messages, b.nonce)}
             ELSE {})
       \cup (IF top > UNDO_HEIGHT + 1
             THEN {Block(bogusHash, top - UNDO_HEIGHT - 1, b.difficulty, b.timestamp,
                         b.messages, b.nonce),
                   Block(bogusHash, top - UNDO_HEIGHT, b.difficulty, b.timestamp,
                         b.messages, b.nonce)}
             ELSE {})

\* ---- messages of the inputs; every one is hashed and signed as the
\* wallet routes and doHash make them.

coinbaseMessage(address, startHeight) ==
    Message(Payload("coinbase", CRD, COINBASE_QUANTITY, 0, address, UNDEF, UNDEF,
                    startHeight, startHeight), NULL_KEY, 1)

sendMessage(srcAddress, dstAddress, asset, quantity, startHeight, timestamp) ==
    Message(Payload("send", asset, quantity, 0, srcAddress, dstAddress, srcAddress,
                    startHeight, timestamp), srcAddress, 1)

minterMessage(address, asset, startHeight, timestamp) ==
    Message(Payload("minter", asset, 0, 0, UNDEF, UNDEF, address, startHeight, timestamp),
            address, 1)

priceMessage(address, asset, price, startHeight, timestamp) ==
    Message(Payload("price", asset, 0, price, UNDEF, UNDEF, address, startHeight, timestamp),
            address, 1)

buyMessage(address, asset, quantity, price, startHeight, timestamp) ==
    Message(Payload("buy", asset, quantity, price, UNDEF, UNDEF, address, startHeight,
                    timestamp), address, 1)

getMessage(address, asset, quantity, startHeight, timestamp) ==
    Message(Payload("get", asset, quantity, 0, address, UNDEF, UNDEF, startHeight,
                    timestamp), NULL_KEY, 1)

mintMessage(address, asset, quantity, startHeight, timestamp) ==
    Message(Payload("mint", asset, quantity, 0, UNDEF, UNDEF, address, startHeight,
                    timestamp), address, 1)

\* At most this many messages are submitted to one mempool.
MaxMempool ==
    2

\* Messages are offered to submitMessage while the mempool is below its bound.
maySubmit ==
    Len(mempool.messages) < MaxMempool

\* ---- the inputs of the long chain: blocks without messages, and one
\* message that is live from height TtlStartHeight on.

TtlStartHeight ==
    5

ttlMessage ==
    getMessage("A", "GOLD", 5, TtlStartHeight, 9)

\* The same message under the digest of another payload.
forgedMessage ==
    [ttlMessage EXCEPT !.hash = Sha256([ttlMessage.payload EXCEPT !.quantity = 6])]

\* Whether the next height is one of the two heights at each end of the
\* window of ttlMessage, inside or outside it.
atWindowEdge ==
    topBlockHeight(blocks) + 1 \in {TtlStartHeight - 1, TtlStartHeight,
                                    TtlStartHeight + MESSAGE_TTL - 1,
                                    TtlStartHeight + MESSAGE_TTL}

\* The blocks offered to the long chain: the next block without messages,
\* at the edges of the window the next block carrying ttlMessage, and the
\* blocks addBlock must turn down.  Valid blocks are offered to the first
\* process only.
plainBlocks ==
    (IF crashes = 0 /\ mayGrow(MaxHeight)
     THEN {minedBlock(blocks, <<>>, 1)}
          \cup (IF atWindowEdge THEN {minedBlock(blocks, <<ttlMessage>>, 1)} ELSE {})
     ELSE {})
    \cup rejectedBlocks(blocks, minedBlock(blocks, <<>>, 1))

plainMessages ==
    IF maySubmit THEN {ttlMessage, forgedMessage} ELSE {}

\* ---- the ledger inputs: two holders, one asset with a minter and a price.

sendAB ==
    sendMessage("A", "B", CRD, 60, 1, 1)

sendABagain ==
    sendMessage("A", "B", CRD, 60, 1, 2)

sendAA ==
    sendMessage("A", "A", CRD, 30, 1, 3)

sendBA ==
    sendMessage("B", "A", CRD, 50, 1, 4)

sendMintAB ==
    sendMessage("A", "B", "GOLD:mint", 1, 1, 5)

buyA ==
    buyMessage("A", "GOLD", 10, 5, 1, 6)

\* More than a coinbase pays.
sendABbig ==
    sendMessage("A", "B", CRD, 120, 1, 9)

\* The message lists of the blocks offered to the ledger.
ledgerLists ==
    {<<coinbaseMessage("A", 1), minterMessage("A", "GOLD", 1, 7),
       priceMessage("A", "GOLD", 5, 1, 8)>>,
     <<buyA, sendMintAB, sendBA>>,
     <<sendAB>>,
     <<sendAA, sendAB>>,
     <<sendAB, sendABagain>>}

\* A process of the ledger accepts at most this many blocks.
MaxLedgerHeight ==
    2

ledgerBlocks ==
    IF mayGrow(MaxLedgerHeight)
    THEN { minedBlock(blocks, messages, 1) : messages \in ledgerLists }
    ELSE {}

ledgerMessages ==
    IF maySubmit THEN {sendAB, sendABagain, sendABbig, buyA} ELSE {}

\* The steps of a save while every file on disk is within the kept ranges
\* (chains shorter than UNDO_HEIGHT): there is never a file to unlink.
SaveKeepingAll ==
    \/ SaveWriteFile
    \/ SaveReaddirDbs
    \/ SaveReaddirBlocks
    \/ SaveDone

Save ==
    \/ SaveWriteFile
    \/ SaveReaddirDbs
    \/ SaveReaddirBlocks
    \/ SaveUnlink
    \/ SaveDone

Next ==
    \/ LoadState
    \/ \E block \in plainBlocks : AddBlock(block)
    \/ \E message \in plainMessages : SubmitMessage(message)
    \/ Return
    \/ Save
    \/ Crash

Spec ==
    Init /\ [][Next]_vars

NextLedger ==
    \/ LoadState
    \/ \E block \in ledgerBlocks : AddBlock(block)
    \/ \E message \in ledgerMessages : SubmitMessage(message)
    \/ Return
    \/ SaveKeepingAll
    \/ Crash

SpecLedger ==
    Init /\ [][NextLedger]_vars

\* ---- the node that keeps running: blocks without messages arrive, the
\* tail block arrives again, and every disk operation completes.

\* This many blocks arrive.
MaxLiveHeight ==
    12

liveBlocks ==
    (IF mayGrow(MaxLiveHeight) THEN {minedBlock(blocks, <<>>, 1)} ELSE {})
    \cup (IF Len(blocks) > 0 THEN {blocks[Len(blocks)]} ELSE {})

NextLive ==
    \/ LoadState
    \/ \E block \in liveBlocks : AddBlock(block)
    \/ Return
    \/ Save

\* listen() runs, a call returns, and the callbacks of the file system run
\* however many calls arrive between them.
SpecLive ==
    /\ Init
    /\ [][NextLive]_vars
    /\ WF_vars(LoadState)
    /\ WF_vars(Return)
    /\ SF_vars(Save)

\* ---- the urls of the inputs

\* DEFAULTS: the host and the port the node listens on.
localUrl ==
    Url("0.0.0.0", "6777")

PeerHosts ==
    <<"peer1", "peer2", "peer3", "peer4", "peer5", "peer6", "peer7", "peer8",
      "peer9", "peer10", "peer11", "peer12", "peer13", "peer14">>

peerUrl(n) ==
    Url(PeerHosts[n], "6777")

\* ---- the node that is shut down: blocks arrive, one peer is added and
\* connects, the miner is started, and the shutdown function is called.

\* This many blocks arrive at the node that is shut down.
MaxDownHeight ==
    2

\* No block and no peer arrives once the shutdown function has been called.
downBlocks ==
    IF mayGrow(MaxDownHeight) /\ ~shutdown.called
    THEN {minedBlock(blocks, <<>>, 1)} ELSE {}

downUrls ==
    IF ~shutdown.called THEN {peerUrl(1)} ELSE {}

NextDown ==
    \/ LoadState
    \/ \E block \in downBlocks : AddBlock(block)
    \/ \E url \in downUrls : AddPeer(url)
    \/ Return
    \/ SaveKeepingAll
    \/ SavePeersDone
    \/ SocketOpen
    \/ StartMine
    \/ Destroy
    \/ ServerClosed
    \/ ShutdownDone

SpecDown ==
    Init /\ [][NextDown]_vars

\* ---- a peer that is added, removed and disabled while its connections
\* open, fail and close.

\* The peers of the inputs that connect.
MaxLinkedPeers ==
    1

\* A peer is added once no connection and no timer of an earlier Peer
\* object is left.
linkedUrls ==
    IF sockets = {} /\ timeouts = {}
    THEN { peerUrl(n) : n \in 1..MaxLinkedPeers } ELSE {}

unlinkedUrls ==
    { peerUrl(n) : n \in 1..MaxLinkedPeers }

NextPeer ==
    \/ LoadState
    \/ \E url \in linkedUrls : AddPeer(url)
    \/ \E url \in unlinkedUrls : RemovePeer(url)
    \/ Return
    \/ SocketOpen
    \/ SocketError
    \/ SocketClose
    \/ TimeoutFires
    \/ Destroy

SpecPeer ==
    Init /\ [][NextPeer]_vars

\* ---- the peer set: more peers than the quorum become known one after
\* another, known urls and the url of the node are added again, peers are
\* removed, and the process restarts on the peers.txt the last save left.

\* This many peers become known.
MaxPeers ==
    11

\* At most this many peers are removed.
MaxRemoved ==
    1

\* The place of the url among the urls of the inputs.
hostIndex(url) ==
    IF \E n \in 1..Len(PeerHosts) : peerUrl(n) = url
    THEN CHOOSE n \in 1..Len(PeerHosts) : peerUrl(n) = url
    ELSE 0

\* The place of the last of the urls of the inputs that is known.
lastPeer ==
    IF \E i \in 1..Len(peers) : hostIndex(peers[i].url) > 0
    THEN CHOOSE n \in 1..Len(PeerHosts) :
             /\ \E i \in 1..Len(peers) : hostIndex(peers[i].url) = n
             /\ \A i \in 1..Len(peers) : hostIndex(peers[i].url) <= n
    ELSE 0

\* The urls addPeer is called with: the next url while no save of peers.txt
\* runs, the first and the last of the known ones and the url of the node
\* while none is queued.
addedUrls ==
    (IF ~savePeersRunning /\ lastPeer < MaxPeers /\ Cardinality(sockets) < MaxPeers
     THEN {peerUrl(lastPeer + 1)} ELSE {})
    \cup (IF ~peersQueued
          THEN { peers[i].url : i \in {1, Len(peers)} \cap (1..Len(peers)) }
               \cup {localUrl}
          ELSE {})

\* The urls removePeer is called with: the first and the last of the known
\* ones while no save runs and few were removed, and one that is not known.
removedUrls ==
    (IF ~savePeersRunning
        /\ Cardinality({ s \in sockets : s.state = "aborted" }) < MaxRemoved
     THEN { peers[i].url : i \in {1, Len(peers)} \cap (1..Len(peers)) } ELSE {})
    \cup (IF ~peersQueued /\ lastPeer < MaxPeers THEN {peerUrl(lastPeer + 1)} ELSE {})

NextPeers ==
    \/ LoadState
    \/ \E url \in addedUrls : AddPeer(url)
    \/ \E url \in removedUrls : RemovePeer(url)
    \/ Return
    \/ SavePeersDone
    \/ Crash

SpecPeers ==
    Init /\ [][NextPeers]_vars

\* ---- the asset inputs: two addresses that claim, price, buy and hand over
\* the asset GOLD, and that try the same on CRD.

minterA ==
    minterMessage("A", "GOLD", 1, 11)

minterB ==
    minterMessage("B", "GOLD", 1, 12)

priceA ==
    priceMessage("A", "GOLD", 5, 1, 13)

\* 10 GOLD at the advertised price of 5.
buyB ==
    buyMessage("B", "GOLD", 10, 5, 1, 14)

\* 10 GOLD at a price nobody advertised.
buyBcheap ==
    buyMessage("B", "GOLD", 10, 4, 1, 15)

\* 30 GOLD at 5 cost more than a coinbase pays.
buyBbig ==
    buyMessage("B", "GOLD", 30, 5, 1, 16)

handMintAB ==
    sendMessage("A", "B", "GOLD:mint", 1, 1, 17)

handMintBA ==
    sendMessage("B", "A", "GOLD:mint", 1, 1, 18)

minterCrd ==
    minterMessage("A", CRD, 1, 21)

\* A price for CRD signed by B.
priceCrd ==
    priceMessage("B", CRD, 0, 1, 22)

buyCrd ==
    buyMessage("B", CRD, 1, 1, 1, 23)

getCrd ==
    getMessage("A", CRD, 5, 1, 24)

getCrdKey ==
    getMessage("A", "CRD.KEY", 5, 1, 25)

mintCrd ==
    mintMessage("A", CRD, 5, 1, 26)

handCrdMintAB ==
    sendMessage("A", "B", "CRD:mint", 1, 1, 27)

handCrdMintBA ==
    sendMessage("B", "A", "CRD:mint", 1, 1, 28)

\* The message lists of the blocks offered to the asset ledger.
assetLists ==
    {<<coinbaseMessage("B", 1), minterA, priceA>>,
     <<coinbaseMessage("B", 1), buyB, minterA, priceA>>,
     <<coinbaseMessage("A", 1), coinbaseMessage("B", 1)>>,
     <<minterA, minterB>>,
     <<minterB>>,
     <<buyB>>,
     <<buyBcheap>>,
     <<buyBbig>>,
     <<handMintAB, handMintBA>>,
     <<handMintBA, handMintAB>>,
     <<minterCrd>>,
     <<priceCrd>>,
     <<buyCrd>>,
     <<getCrd>>,
     <<getCrdKey>>,
     <<mintCrd>>,
     <<handCrdMintAB>>,
     <<handCrdMintBA, handCrdMintAB>>}

\* The blocks are offered to the first process only.
assetBlocks ==
    IF crashes = 0 /\ mayGrow(MaxLedgerHeight)
    THEN { minedBlock(blocks, messages, 1) : messages \in assetLists }
    ELSE {}

assetMessages ==
    IF maySubmit THEN {minterA, minterB, minterCrd} ELSE {}

NextAssets ==
    \/ LoadState
    \/ \E block \in assetBlocks : AddBlock(block)
    \/ \E message \in assetMessages : SubmitMessage(message)
    \/ Return
    \/ SaveKeepingAll
    \/ Crash

SpecAssets ==
    Init /\ [][NextAssets]_vars

\* ---- the full mempool: address A has claimed GOLD and mints one unit
\* again and again; the messages wait in the mempool of a node whose chain
\* is empty.

\* The i-th of the messages that wait.
pendingMessage(i) ==
    IF i = 1 THEN minterA ELSE mintMessage("A", "GOLD", 1, 1, 100 + i)

pendingMessages(n) ==
    [i \in 1..n |-> pendingMessage(i)]

\* The mempool starts this many messages or fewer below MESSAGES_PER_BLOCK_MAX.
MaxFullSlack ==
    2

\* This many blocks are mined on the node with the full mempool.
MaxFullHeight ==
    2

\* A running node after that many submitMessage calls, each accepted.
InitFull ==
    /\ dbs = <<>>
    /\ blocks = <<>>
    /\ \E n \in (MESSAGES_PER_BLOCK_MAX - MaxFullSlack)..MESSAGES_PER_BLOCK_MAX :
           mempool = [blocks |-> <<>>, messages |-> pendingMessages(n)]
    /\ saveStateRunning = FALSE
    /\ queued = FALSE
    /\ saveJob = NoJob
    /\ blockFiles = EmptyFiles
    /\ dbFiles = EmptyFiles
    /\ phase = "running"
    /\ crashes = 0
    /\ accepted = 0
    /\ fromEmpty = TRUE
    /\ lastCall = NoCall
    /\ emitted = <<>>
    /\ peers = <<>>
    /\ sockets = {}
    /\ timeouts = {}
    /\ savePeersRunning = FALSE
    /\ peersQueued = FALSE
    /\ savePeersJob = <<>>
    /\ peersFile = <<>>
    /\ mining = FALSE
    /\ mineAddress = NULL
    /\ mineRetries = 0
    /\ server = "listening"
    /\ shutdown = NoShutdown

\* How the mempool of InitFull comes about: the messages are submitted one
\* after the other to a node started on an empty data directory.
fillMessages ==
    IF Len(mempool.messages) < MESSAGES_PER_BLOCK_MAX
    THEN {pendingMessage(Len(mempool.messages) + 1)} ELSE {}

NextFill ==
    \/ LoadState
    \/ \E message \in fillMessages : SubmitMessage(message)
    \/ Return

SpecFill ==
    Init /\ [][NextFill]_vars

\* The mint that follows the newest message that waits.
nextMint ==
    mintMessage("A", "GOLD", 1, 1,
                mempool.messages[Len(mempool.messages)].payload.timestamp + 1)

\* submitMessage is called with a new mint, with a message that waits
\* already, and with a claim of GOLD that no validation accepts.
fullMessages ==
    {nextMint, mempool.messages[Len(mempool.messages)], minterB}

\* The miner confirms the oldest messages that wait.
fullBlocks ==
    IF mayGrow(MaxFullHeight)
    THEN { minedBlock(blocks, <<coinbaseMessage("B", tailHeight(blocks) + 1)>>
                              \o SubSeq(mempool.messages, 1, k), 1) : k \in 1..2 }
    ELSE {}

NextFull ==
    \/ \E message \in fullMessages : SubmitMessage(message)
    \/ \E block \in fullBlocks : AddBlock(block)
    \/ Return

SpecFull ==
    InitFull /\ [][NextFull]_vars

\* ---- the blocks Block.verify is called with: the block a miner finds on
\* the tip, changed so that it fails one or two of the checks.

\* This many blocks are accepted by the node whose tip is verified against.
MaxVerifyHeight ==
    2

Defects ==
    {"hash", "prevHash", "height", "timestamp", "claim", "count", "difficulty",
     "message", "replay"}

\* One message more than a block may carry.
tooManyMessages(message) ==
    [i \in 1..(MESSAGES_PER_BLOCK_MAX + 1) |-> message]

\* The block b with the defects of the set D: a hash that is not its
\* digest, a parent that is not the tip, a height one too high, a timestamp
\* of 0, a nonce whose digest misses the target, too many messages, a
\* difficulty below the minimum, a second coinbase, and the coinbase of the
\* block before ahead of its own.
defective(b, D) ==
    LET messages == IF "count" \in D THEN tooManyMessages(b.messages[1])
                    ELSE (IF "replay" \in D THEN <<coinbaseMessage("A", b.height - 1)>>
                          ELSE <<>>)
                         \o b.messages
                         \o (IF "message" \in D THEN <<coinbaseMessage("B", b.height)>>
                             ELSE <<>>)
        made == Block(IF "prevHash" \in D THEN bogusHash ELSE b.prevHash,
                      IF "height" \in D THEN b.height + 1 ELSE b.height,
                      IF "difficulty" \in D THEN MIN_DIFFICULTY - 1 ELSE b.difficulty,
                      IF "timestamp" \in D THEN 0 ELSE b.timestamp,
                      messages,
                      IF "claim" \in D THEN 0 ELSE b.nonce)
    IN IF "hash" \in D THEN [made EXCEPT !.hash = bogusHash] ELSE made

\* The node after it accepted, on an empty data directory, the h blocks a
\* miner paid at A found one after the other, before any callback of a save
\* has run: addBlock commits the block on the tip snapshot, pushes both and
\* requests a save.
RECURSIVE confirmedNode(_)
confirmedNode(h) ==
    IF h = 0
    THEN [dbs |-> <<>>, blocks |-> <<>>, mempool |-> DEFAULT_MEMPOOL,
          saveStateRunning |-> FALSE, queued |-> FALSE, saveJob |-> NoJob]
    ELSE LET n == confirmedNode(h - 1)
             block == minedBlock(n.blocks, <<coinbaseMessage("A", h)>>, 1)
             out == commitAndAnnounce(n.dbs, n.blocks, block,
                        commitMainChainBlock(topDb(n.dbs), n.blocks, n.mempool, block))
             save == recurse(n.saveStateRunning, n.queued, n.saveJob, out.blocks, out.dbs,
                             EmptyFiles, EmptyFiles)
         IN [dbs |-> out.dbs, blocks |-> out.blocks, mempool |-> out.mempool,
             saveStateRunning |-> save.saveStateRunning, queued |-> save.queued,
             saveJob |-> save.saveJob]

InitVerify ==
    /\ \E h \in 0..MaxVerifyHeight :
           /\ dbs = confirmedNode(h).dbs
           /\ blocks = confirmedNode(h).blocks
           /\ mempool = confirmedNode(h).mempool
           /\ saveStateRunning = confirmedNode(h).saveStateRunning
           /\ queued = confirmedNode(h).queued
           /\ saveJob = confirmedNode(h).saveJob
           /\ accepted = h
    /\ blockFiles = EmptyFiles
    /\ dbFiles = EmptyFiles
    /\ phase = "running"
    /\ crashes = 0
    /\ fromEmpty = TRUE
    /\ lastCall = NoCall
    /\ emitted = <<>>
    /\ peers = <<>>
    /\ sockets = {}
    /\ timeouts = {}
    /\ savePeersRunning = FALSE
    /\ peersQueued = FALSE
    /\ savePeersJob = <<>>
    /\ peersFile = <<>>
    /\ mining = FALSE
    /\ mineAddress = NULL
    /\ mineRetries = 0
    /\ server = "listening"
    /\ shutdown = NoShutdown

\* The block a miner paid at A finds on the tip.
verifyTip ==
    minedBlock(blocks, <<coinbaseMessage("A", tailHeight(blocks) + 1)>>, 1)

\* One to three defects; the oversized block is verified on the empty chain
\* only, alone, with a check before it and with the check after it.
defectSets ==
    { D \in SUBSET Defects :
        /\ Cardinality(D) \in 1..3
        /\ "count" \in D =>
               /\ blocks = <<>>
               /\ D \in {{"count"}, {"count", "claim"}, {"count", "difficulty"}} }

verifiedBlocks ==
    { defective(b, D) : b \in {verifyTip}, D \in defectSets }

NextVerify ==
    \/ \E block \in verifiedBlocks : VerifyBlock(block)
    \/ Return

SpecVerify ==
    InitVerify /\ [][NextVerify]_vars

\* ---- blocks that hold a message twice.

\* A process offered repeated messages accepts at most this many blocks.
MaxRepeatHeight ==
    3

sendSmall ==
    sendMessage("A", "B", CRD, 30, 1, 10)

\* The message lists of the blocks offered: the coinbase of the miner
\* alone, then a send, a declaration of a minter and the coinbase once and
\* twice.
repeatLists ==
    LET coinbase == coinbaseMessage("A", tailHeight(blocks) + 1) IN
    {<<coinbase>>,
     <<sendSmall>>,
     <<sendSmall, sendSmall>>,
     <<coinbase, sendSmall, sendSmall>>,
     <<minterA, minterA>>,
     <<coinbase, coinbase>>}

repeatBlocks ==
    IF mayGrow(MaxRepeatHeight)
    THEN { minedBlock(blocks, messages, 1) : messages \in repeatLists }
    ELSE {}

NextRepeat ==
    \/ LoadState
    \/ \E block \in repeatBlocks : AddBlock(block)
    \/ Return
    \/ SaveKeepingAll

SpecRepeat ==
    Init /\ [][NextRepeat]_vars

\* ---- a node that mines while messages arrive.

\* The messages of the block doHash builds for a miner paid at this
\* address: the first MESSAGES_PER_BLOCK_MAX - 1 messages that wait, then
\* a new coinbase.
candidateMessages(address) ==
    SubSeq(mempool.messages, 1,
           IF Len(mempool.messages) < MESSAGES_PER_BLOCK_MAX - 1
           THEN Len(mempool.messages) ELSE MESSAGES_PER_BLOCK_MAX - 1)
      \o <<coinbaseMessage(address, tailHeight(blocks) + 1)>>

\* The miner has at most this many pending calls of _mine that
\* mineImmediate does not hold.
MaxMineRetries ==
    1

\* A process with a miner accepts at most this many blocks.
MaxMineHeight ==
    3

\* One run of _mine to the end of its .then or .catch: doHash builds the
\* block and searches a nonce within HASH_WORK_TIME (found tells whether one
\* was found), addBlock is called with the block, and the next run is
\* scheduled with setImmediate, kept in mineImmediate, or, when addBlock
\* threw, with setTimeout, kept nowhere. held tells whether this run was the
\* one mineImmediate held.
MineRun(found, held, block, out) ==
    LET save == savedAfter(out)
        threw == out.result.thrown
        left == IF held THEN mineRetries ELSE mineRetries - 1
        retries == IF threw THEN left + 1
                   ELSE IF ~held /\ mining THEN left + 1
                   ELSE left
    IN
    /\ phase = "running"
    /\ lastCall = NoCall
    /\ found => mayGrow(MaxMineHeight)
    /\ retries <= MaxMineRetries
    /\ dbs' = out.dbs
    /\ blocks' = out.blocks
    /\ mempool' = out.mempool
    /\ IF out.saveState
       THEN /\ saveStateRunning' = save.saveStateRunning
            /\ queued' = save.queued
            /\ saveJob' = save.saveJob
            /\ accepted' = accepted + 1
       ELSE UNCHANGED <<saveStateRunning, queued, saveJob, accepted>>
    /\ lastCall' = Call("mine", IF found THEN <<block>> ELSE <<>>, <<>>, out.result,
                        Memory(dbs, blocks, mempool, saveStateRunning, queued, saveJob))
    /\ emitted' = out.events
    /\ mining' = IF threw THEN (IF held THEN FALSE ELSE mining) ELSE TRUE
    /\ mineRetries' = retries
    /\ UNCHANGED <<blockFiles, dbFiles, phase, crashes, fromEmpty, peerVars, mineAddress,
                   server, shutdown>>

\* The callback of setImmediate(_mine) that mineImmediate holds runs
\* (held), or the callback of setTimeout(_mine, 1000) or of a
\* setImmediate(_mine) whose handle a later one has replaced.
Mine(found, held) ==
    /\ IF held THEN mining ELSE mineRetries > 0
    /\ MineRun(found, held, minedBlock(blocks, candidateMessages(mineAddress), 1),
               IF found
               THEN addBlock(dbs, blocks, mempool,
                             minedBlock(blocks, candidateMessages(mineAddress), 1))
               ELSE Rejected(dbs, blocks, mempool, OK))

\* The messages submitted to the node that mines: A gives GOLD a minter
\* and a price, sends CRD to B and buys GOLD.
mineMessages ==
    IF maySubmit
    THEN {minterMessage("A", "GOLD", 1, 7), priceMessage("A", "GOLD", 5, 1, 8), sendAB, buyA}
    ELSE {}

NextMine ==
    \/ LoadState
    \/ \E message \in mineMessages : SubmitMessage(message)
    \/ Return
    \/ StartMine
    \/ StopMine
    \/ \E found \in BOOLEAN, held \in BOOLEAN : Mine(found, held)
    \/ SaveKeepingAll
    \/ Destroy
    \/ ServerClosed
    \/ ShutdownDone

SpecMine ==
    Init /\ [][NextMine]_vars

\* A run of _mine is pending and, when its search finds a nonce, within the
\* bounds: mineImmediate holds it (held), or a timer or a replaced
\* immediate does.
MineReady(held) ==
    /\ phase = "running"
    /\ lastCall = NoCall
    /\ mayGrow(MaxMineHeight)
    /\ IF held THEN mining /\ mineRetries < MaxMineRetries ELSE mineRetries > 0

\* Strong fairness of the runs of _mine whose search finds a nonce, with
\* the condition under which they are enabled written out: a run that is
\* pending again and again finds a nonce again and again.
MineFair(held) ==
    []<>MineReady(held) => []<><<Mine(TRUE, held)>>_vars

\* listen() runs, a call returns, the callbacks of the file system run, and
\* the immediates and timers of the miner run.
SpecMineLive ==
    /\ Init
    /\ [][NextMine]_vars
    /\ WF_vars(LoadState)
    /\ WF_vars(Return)
    /\ SF_vars(SaveKeepingAll)
    /\ MineFair(TRUE)
    /\ MineFair(FALSE)

\* ------------------------------------------------------------ properties

\* The fields of the node as the call that has just returned found them.
pre ==
    lastCall.pre[1]

blockAccepted ==
    lastCall.op = "addBlock" /\ lastCall.result = OK

messageAccepted ==
    lastCall.op = "submitMessage" /\ emitted # <<>>

linked(chain) ==
    \A i \in 2..Len(chain) :
        /\ chain[i].prevHash = chain[i - 1].hash
        /\ chain[i].height = chain[i - 1].height + 1

(* C1: on a node that started from the empty chain, after any sequence of  *)
(* addBlock calls, every two consecutive blocks in memory are linked: the  *)
(* later one names the hash of the earlier one as its prevHash and is one  *)
(* higher.                                                                 *)
C1_ChainLinked ==
    fromEmpty => linked(blocks)

C1_GrownFromEmpty ==
    /\ fromEmpty
    /\ blockAccepted
    /\ Len(blocks) >= 3
    /\ Len(pre.blocks) = Len(blocks) - 1

(* C2: in every state, straight after loadState as well as after addBlock  *)
(* calls, there are at most UNDO_HEIGHT snapshots and at most              *)
(* CHARGE_SETTLE_BLOCKS blocks in memory.                                  *)
C2_BuffersBounded ==
    /\ Len(dbs) <= UNDO_HEIGHT
    /\ Len(blocks) <= CHARGE_SETTLE_BLOCKS

(* C3: when addBlock has accepted a block there are min(|blocks|,          *)
(* UNDO_HEIGHT) snapshots, and the newest snapshot is the state after the  *)
(* tail block: its newest layer of message hashes is the tail block's.     *)
C3_SnapshotPerBlock ==
    blockAccepted =>
        /\ Len(dbs) = (IF Len(blocks) < UNDO_HEIGHT THEN Len(blocks) ELSE UNDO_HEIGHT)
        /\ Len(dbs) > 0
        /\ Len(topDb(dbs).messageHashes) > 0
        /\ topDb(dbs).messageHashes[Len(topDb(dbs).messageHashes)]
             = [i \in 1..Len(lastCall.block[1].messages) |->
                  lastCall.block[1].messages[i].hash]

(* C4: after a block is committed every balance stored in the newest       *)
(* snapshot is an integer that is not negative, in whatever order the      *)
(* block lists its messages.                                               *)
C4_BalancesNonNegative ==
    blockAccepted =>
        \A address \in DOMAIN topDb(dbs).balances :
            \A asset \in DOMAIN topDb(dbs).balances[address] :
                /\ topDb(dbs).balances[address][asset] \in Int
                /\ topDb(dbs).balances[address][asset] >= 0

RECURSIVE SumBalances(_, _, _)
SumBalances(balances, addresses, asset) ==
    IF addresses = {} THEN 0
    ELSE LET a == CHOOSE x \in addresses : TRUE
         IN (IF asset \in DOMAIN balances[a] THEN balances[a][asset] ELSE 0)
            + SumBalances(balances, addresses \ {a}, asset)

\* The total of an asset over all addresses of a snapshot.
Supply(db, asset) ==
    SumBalances(db.balances, DOMAIN db.balances, asset)

AssetsHeld(db) ==
    UNION { DOMAIN db.balances[a] : a \in DOMAIN db.balances }

sendOnly(block) ==
    /\ block.messages # <<>>
    /\ \A i \in 1..Len(block.messages) : block.messages[i].payload.type = "send"

(* C5: committing a block that holds only send messages leaves the total   *)
(* supply of every asset as it was, a send from an address to itself       *)
(* included.                                                               *)
C5_SendConservesSupply ==
    (blockAccepted /\ sendOnly(lastCall.block[1])) =>
        \A asset \in AssetsHeld(topDb(pre.dbs)) \cup AssetsHeld(topDb(dbs)) :
            Supply(topDb(dbs), asset) = Supply(topDb(pre.dbs), asset)

C5_SelfSendCommitted ==
    /\ blockAccepted
    /\ sendOnly(lastCall.block[1])
    /\ \E i \in 1..Len(lastCall.block[1].messages) :
           lastCall.block[1].messages[i].payload.address
             = lastCall.block[1].messages[i].payload.dstAddress
    /\ Supply(topDb(dbs), CRD) > 0

hashesOf(block) ==
    { block.messages[i].hash : i \in 1..Len(block.messages) }

(* C6: no message hash is in two different blocks among the last           *)
(* MESSAGE_TTL blocks of the chain, and addBlock turns down a block that   *)
(* carries a message whose hash is in a layer of the tip snapshot's        *)
(* messageHashes.                                                          *)
C6_NoReplay ==
    /\ \A i, j \in 1..Len(LastN(blocks, MESSAGE_TTL)) :
           i # j => hashesOf(LastN(blocks, MESSAGE_TTL)[i])
                      \cap hashesOf(LastN(blocks, MESSAGE_TTL)[j]) = {}
    /\ (/\ lastCall.op = "addBlock"
        /\ \E h \in hashesOf(lastCall.block[1]) : hashSeen(topDb(pre.dbs), h))
         => lastCall.result # OK

withinWindow(message, chain) ==
    /\ message.payload.startHeight <= tailHeight(chain) + 1
    /\ tailHeight(chain) + 1 < message.payload.startHeight + MESSAGE_TTL

wellFormed(message) ==
    Sha256(message.payload) = message.hash

pending(message, pool) ==
    \E i \in 1..Len(pool.messages) : pool.messages[i].hash = message.hash

(* C7: a message is accepted, into the mempool or inside a block, only if  *)
(* startHeight <= nextHeight < startHeight + MESSAGE_TTL where nextHeight  *)
(* is the tail height plus one; a message outside that window whose hash   *)
(* is right and that is not pending already is rejected with status 400    *)
(* 'ttl expired', submitted alone or carried first by the next block.      *)
C7_TtlWindow ==
    /\ messageAccepted => withinWindow(lastCall.message[1], pre.blocks)
    /\ blockAccepted =>
           \A i \in 1..Len(lastCall.block[1].messages) :
               withinWindow(lastCall.block[1].messages[i], pre.blocks)
    /\ (/\ lastCall.op = "submitMessage"
        /\ wellFormed(lastCall.message[1])
        /\ ~pending(lastCall.message[1], pre.mempool)
        /\ ~withinWindow(lastCall.message[1], pre.blocks))
         => lastCall.result = Err(400, "ttl expired")
    /\ (/\ lastCall.op = "addBlock"
        /\ lastCall.block[1].messages # <<>>
        /\ lastCall.block[1] = minedBlock(pre.blocks, lastCall.block[1].messages, 1)
        /\ wellFormed(lastCall.block[1].messages[1])
        /\ ~withinWindow(lastCall.block[1].messages[1], pre.blocks))
         => lastCall.result = Err(400, "ttl expired")

C7_ExpiredOneBlockLate ==
    /\ lastCall.op = "submitMessage"
    /\ wellFormed(lastCall.message[1])
    /\ tailHeight(blocks) + 1 = lastCall.message[1].payload.startHeight + MESSAGE_TTL
    /\ lastCall.result = Err(400, "ttl expired")

\* What a pending message does to the balance of an address in an asset:
\* a send moves its quantity, a buy takes quantity * price of CRD from the
\* buyer to the minter of the asset and gives the buyer the quantity.
pendingEffect(db, message, address, asset) ==
    LET p == message.payload
        buyer == getAddressFromPublicKey(p.publicKey)
    IN
    CASE p.type = "send" ->
             (IF p.asset = asset /\ p.address = address THEN 0 - p.quantity ELSE 0)
             + (IF p.asset = asset /\ p.dstAddress = address THEN p.quantity ELSE 0)
      [] p.type = "buy" ->
             (IF asset = CRD /\ buyer = address THEN 0 - (p.quantity * p.price) ELSE 0)
             + (IF asset = CRD /\ Get(db.minters, p.asset) = address
                THEN p.quantity * p.price ELSE 0)
             + (IF asset = p.asset /\ buyer = address THEN p.quantity ELSE 0)
      [] OTHER -> 0

RECURSIVE pendingEffects(_, _, _, _)
pendingEffects(db, messages, address, asset) ==
    IF messages = <<>> THEN 0
    ELSE pendingEffect(db, Head(messages), address, asset)
         + pendingEffects(db, Tail(messages), address, asset)

\* The confirmed balance plus the effects of the pending messages.
unconfirmedBalance(db, pool, address, asset) ==
    (IF address \in DOMAIN db.balances /\ asset \in DOMAIN db.balances[address]
     THEN db.balances[address][asset] ELSE 0)
    + pendingEffects(db, pool.messages, address, asset)

(* C8: submitMessage accepts a send (one that is live, not confirmed and   *)
(* not pending yet) only if the sender's confirmed balance plus the        *)
(* effects of the pending messages covers the quantity; otherwise it       *)
(* returns status 402 'insufficient funds' and the mempool is as it was,   *)
(* so the pending sends of an address never exceed together what it holds. *)
C8_SendWithinFunds ==
    (/\ lastCall.op = "submitMessage"
     /\ lastCall.message[1].payload.type = "send"
     /\ wellFormed(lastCall.message[1])
     /\ withinWindow(lastCall.message[1], pre.blocks)
     /\ ~hashSeen(topDb(pre.dbs), lastCall.message[1].hash)
     /\ ~pending(lastCall.message[1], pre.mempool))
      =>
        /\ messageAccepted =>
               unconfirmedBalance(topDb(pre.dbs), pre.mempool,
                                  lastCall.message[1].payload.address,
                                  lastCall.message[1].payload.asset)
                 >= lastCall.message[1].payload.quantity
        /\ unconfirmedBalance(topDb(pre.dbs), pre.mempool,
                              lastCall.message[1].payload.address,
                              lastCall.message[1].payload.asset)
             < lastCall.message[1].payload.quantity
           => /\ lastCall.result = Err(402, "insufficient funds")
              /\ mempool = pre.mempool

(* C9: when addBlock or submitMessage returns an error, soft or hard, the  *)
(* snapshots, the blocks and the mempool (its blocks and its messages) are *)
(* as the call found them, no event was emitted and no save was started or *)
(* queued.                                                                 *)
C9_ErrorsChangeNothing ==
    (/\ lastCall.op \in {"addBlock", "submitMessage"}
     /\ lastCall.result # OK
     /\ ~lastCall.result.thrown)
      =>
        /\ dbs = pre.dbs
        /\ blocks = pre.blocks
        /\ mempool = pre.mempool
        /\ emitted = <<>>
        /\ saveStateRunning = pre.saveStateRunning
        /\ queued = pre.queued
        /\ saveJob = pre.saveJob

C9_HardErrorOnGrownChain ==
    /\ lastCall.op = "addBlock"
    /\ lastCall.result # OK
    /\ ~lastCall.result.soft
    /\ ~lastCall.result.thrown
    /\ Len(blocks) > 0
    /\ mempool.messages # <<>>

(* C10: a 'block' event is emitted only once its block is the tail of the  *)
(* chain, the block's snapshot has been pushed and a save has been         *)
(* enqueued; no 'block' event is emitted for a block that was not          *)
(* committed.                                                              *)
C10_BlockEventAfterCommit ==
    \A i \in 1..Len(emitted) :
        emitted[i].type = "block" =>
            /\ emitted[i].tailIsBlock
            /\ emitted[i].snapshotPushed
            /\ emitted[i].saveEnqueued
            /\ blockAccepted
            /\ emitted[i].hash = lastCall.block[1].hash
            /\ Len(blocks) > 0
            /\ blocks[Len(blocks)] = lastCall.block[1]
            /\ saveStateRunning

C10_BlockAnnounced ==
    /\ emitted # <<>>
    /\ emitted[1].type = "block"
    /\ Len(blocks) >= 2
    /\ blocks[Len(blocks)].hash = emitted[1].hash

(* C11: a 'message' event is emitted exactly once per message, when the    *)
(* message is appended to mempool.messages: a message whose hash is        *)
(* pending already returns no error, emits nothing and leaves the mempool  *)
(* as it was, a rejected message emits nothing, and addBlock emits no      *)
(* 'message' event.                                                        *)
C11_MessageEventOnAppend ==
    /\ lastCall.op = "submitMessage" =>
        /\ emitted # <<>> <=>
               mempool.messages = Append(pre.mempool.messages, lastCall.message[1])
        /\ emitted = <<>> => mempool = pre.mempool
        /\ emitted # <<>> =>
               /\ Len(emitted) = 1
               /\ emitted[1].type = "message"
               /\ emitted[1].hash = lastCall.message[1].hash
               /\ emitted[1].inMempool
               /\ ~pending(lastCall.message[1], pre.mempool)
               /\ lastCall.result = OK
        /\ pending(lastCall.message[1], pre.mempool) =>
               /\ lastCall.result = OK
               /\ emitted = <<>>
        /\ lastCall.result # OK => emitted = <<>>
    /\ lastCall.op = "addBlock" =>
           \A i \in 1..Len(emitted) : emitted[i].type # "message"

C11_DuplicateDropped ==
    /\ lastCall.op = "submitMessage"
    /\ pending(lastCall.message[1], pre.mempool)
    /\ lastCall.result = OK
    /\ emitted = <<>>
    /\ Len(mempool.messages) = 1

\* The main chain block of a height, the first block in memory being the
\* block of height chain[1].height.
mainAt(chain, height) ==
    chain[height - chain[1].height + 1]

known(block, chain, pool) ==
    \/ /\ chain # <<>>
       /\ block.height >= chain[1].height
       /\ block.height <= tailHeight(chain)
       /\ mainAt(chain, block.height).hash = block.hash
    \/ \E i \in 1..Len(pool.blocks) : pool.blocks[i] = block

\* The block forks off the main chain: its parent is the main chain block
\* one below it, inside the undo window, and another block has its height.
forksMainChain(block, chain) ==
    /\ chain # <<>>
    /\ block.height >= 2
    /\ block.height - 1 >= chain[1].height
    /\ block.height <= tailHeight(chain)
    /\ block.height - 1 >= tailHeight(chain) - UNDO_HEIGHT
    /\ mainAt(chain, block.height - 1).hash = block.prevHash
    /\ mainAt(chain, block.height).hash # block.hash

\* The main chain up to the parent of a forking block, and the blocks above.
belowFork(block, chain) ==
    SubSeq(chain, 1, block.height - chain[1].height)

aboveFork(block, chain) ==
    SubSeq(chain, block.height - chain[1].height + 1, Len(chain))

\* The snapshot after the parent of a forking block.
snapshotBelowFork(block, chain, snapshots) ==
    IF Len(snapshots) > Len(aboveFork(block, chain))
    THEN snapshots[Len(snapshots) - Len(aboveFork(block, chain))]
    ELSE DEFAULT_DB

\* The work of blocks as the specification sums it: the digest of a block
\* as a fraction of maxTarget.  Digests have no numeric value here; the
\* nonce of a block stands for the rank of its digest.
work(chain) ==
    SumSeq([i \in 1..Len(chain) |-> chain[i].nonce])

validSideBlock(block, chain, snapshots) ==
    /\ forksMainChain(block, chain)
    /\ BlockVerify(block, snapshotBelowFork(block, chain, snapshots),
                   belowFork(block, chain)) = OK

(* C12: when addBlock receives a valid block that forks off a main chain   *)
(* block inside the undo window and the work of the side chain above the   *)
(* fork is greater than that of the main chain above it, the node          *)
(* reorganizes: the block is the tail on top of the fork block, the blocks *)
(* that were above the fork are in mempool.blocks and the newest snapshot  *)
(* is the state after the new tail.                                        *)
C12_ReorgOnHeavierSideChain ==
    (/\ lastCall.op = "addBlock"
     /\ validSideBlock(lastCall.block[1], pre.blocks, pre.dbs)
     /\ work(lastCall.block) > work(aboveFork(lastCall.block[1], pre.blocks)))
      =>
        /\ blocks = Append(belowFork(lastCall.block[1], pre.blocks), lastCall.block[1])
        /\ \A i \in 1..Len(aboveFork(lastCall.block[1], pre.blocks)) :
               \E j \in 1..Len(mempool.blocks) :
                   mempool.blocks[j] = aboveFork(lastCall.block[1], pre.blocks)[i]
        /\ dbs # <<>>
        /\ topDb(dbs).messageHashes # <<>>
        /\ topDb(dbs).messageHashes[Len(topDb(dbs).messageHashes)]
             = [i \in 1..Len(lastCall.block[1].messages) |->
                  lastCall.block[1].messages[i].hash]

(* C13: when a valid side chain block arrives and the work of the side     *)
(* chain above the fork is not greater than that of the main chain above   *)
(* it (equal work included), there is no reorganization: blocks and dbs    *)
(* are as they were and the block is appended to mempool.blocks.           *)
C13_LighterSideChainStashed ==
    (/\ lastCall.op = "addBlock"
     /\ validSideBlock(lastCall.block[1], pre.blocks, pre.dbs)
     /\ work(lastCall.block) <= work(aboveFork(lastCall.block[1], pre.blocks)))
      =>
        /\ blocks = pre.blocks
        /\ dbs = pre.dbs
        /\ mempool.blocks = Append(pre.mempool.blocks, lastCall.block[1])

(* C14: addBlock classifies a block it does not hold by its height before  *)
(* it validates it: above tail height + 1 the soft error 'desynchronized   *)
(* block', below the undo window the soft error 'stale block', and inside  *)
(* the window, with no parent on the main chain or among the stashed       *)
(* blocks and a height other than 1, the soft error 'dangling block'.      *)
C14_ClassifiedByHeight ==
    (/\ lastCall.op = "addBlock"
     /\ ~known(lastCall.block[1], pre.blocks, pre.mempool))
      =>
        /\ lastCall.block[1].height > tailHeight(pre.blocks) + 1
             => lastCall.result = SoftErr(400, "desynchronized block")
        /\ lastCall.block[1].height < tailHeight(pre.blocks) - UNDO_HEIGHT
             => lastCall.result = SoftErr(400, "stale block")
        /\ (/\ lastCall.block[1].height >= tailHeight(pre.blocks) - UNDO_HEIGHT
            /\ lastCall.block[1].height <= tailHeight(pre.blocks) + 1
            /\ lastCall.block[1].height # 1
            /\ pre.blocks # <<>>
            /\ lastCall.block[1].height - 1 >= pre.blocks[1].height
            /\ mainAt(pre.blocks, lastCall.block[1].height - 1).hash
                 # lastCall.block[1].prevHash
            /\ \A i \in 1..Len(pre.mempool.blocks) :
                   pre.mempool.blocks[i].hash # lastCall.block[1].prevHash)
             => lastCall.result = SoftErr(400, "dangling block")

C14_StaleBelowWindow ==
    /\ lastCall.op = "addBlock"
    /\ lastCall.block[1].height = tailHeight(blocks) - UNDO_HEIGHT - 1
    /\ lastCall.result = SoftErr(400, "stale block")

(* C15: addBlock with a block whose hash is that of the main chain block   *)
(* of the same height in memory, or with a block that is in mempool.blocks,*)
(* returns the soft error 'block exists', emits no event and changes       *)
(* nothing.                                                                *)
C15_AddBlockIdempotent ==
    (/\ lastCall.op = "addBlock"
     /\ known(lastCall.block[1], pre.blocks, pre.mempool))
      =>
        /\ lastCall.result = SoftErr(400, "block exists")
        /\ emitted = <<>>
        /\ dbs = pre.dbs
        /\ blocks = pre.blocks
        /\ mempool = pre.mempool
        /\ saveStateRunning = pre.saveStateRunning
        /\ queued = pre.queued
        /\ saveJob = pre.saveJob

C15_OldBlockAgain ==
    /\ lastCall.op = "addBlock"
    /\ Len(blocks) >= 2
    /\ lastCall.block[1] = blocks[1]
    /\ lastCall.result = SoftErr(400, "block exists")

(* C16: in every snapshot of the undo stack the minter of CRD is null and  *)
(* the price of CRD is +infinity (the stored price reads as no finite      *)
(* number): no message of any type gives CRD a minter or a finite price.   *)
C16_CrdNeverMintedNorPriced ==
    \A i \in 1..Len(dbs) :
        /\ Get(dbs[i].minters, CRD) = NULL
        /\ getConfirmedPrices(dbs[i], <<>>, CRD) = <<PriceInfinity>>

\* Whether the message claims the asset or hands its mint unit over.
namesMinter(message, asset) ==
    \/ message.payload.type = "minter" /\ message.payload.asset = asset
    \/ message.payload.type = "send" /\ message.payload.asset = MintAssetOf(asset)

(* C17: a minter message for an asset is accepted, inside a block or into  *)
(* the mempool, only while the asset has no minter: none in the tip        *)
(* snapshot, none named by another message of the block and, for the       *)
(* mempool, none named by a pending message.  So no accepted block holds   *)
(* two minter messages for one asset, and a minter message for an asset    *)
(* that has a minter is rejected with 'asset already has minter'.          *)
C17_MinterClaimedOnce ==
    /\ blockAccepted =>
          \A i \in 1..Len(lastCall.block[1].messages) :
              LET message == lastCall.block[1].messages[i] IN
              message.payload.type = "minter" =>
                /\ Get(topDb(pre.dbs).minters, message.payload.asset) = UNDEF
                /\ \A j \in 1..Len(lastCall.block[1].messages) :
                       j # i => ~namesMinter(lastCall.block[1].messages[j],
                                             message.payload.asset)
    /\ (messageAccepted /\ lastCall.message[1].payload.type = "minter") =>
          /\ Get(topDb(pre.dbs).minters, lastCall.message[1].payload.asset) = UNDEF
          /\ \A j \in 1..Len(pre.mempool.messages) :
                 ~namesMinter(pre.mempool.messages[j], lastCall.message[1].payload.asset)
    /\ (/\ lastCall.op = "submitMessage"
        /\ lastCall.message[1].payload.type = "minter"
        /\ wellFormed(lastCall.message[1])
        /\ withinWindow(lastCall.message[1], pre.blocks)
        /\ ~hashSeen(topDb(pre.dbs), lastCall.message[1].hash)
        /\ ~pending(lastCall.message[1], pre.mempool)
        /\ \/ Get(topDb(pre.dbs).minters, lastCall.message[1].payload.asset) # UNDEF
           \/ \E j \in 1..Len(pre.mempool.messages) :
                  namesMinter(pre.mempool.messages[j], lastCall.message[1].payload.asset))
         => /\ lastCall.result = StackErr(400, "asset already has minter")
            /\ mempool = pre.mempool

C17_SecondMinterRefused ==
    /\ lastCall.op = "addBlock"
    /\ lastCall.block[1].messages = <<minterB>>
    /\ Get(topDb(pre.dbs).minters, "GOLD") = "A"
    /\ lastCall.result = StackErr(400, "asset already has minter")
    /\ dbs = pre.dbs

(* C18: in every snapshot, for every asset whose minter is an address,     *)
(* the total supply of the mint unit of the asset is exactly 1 and that    *)
(* address holds it, whatever sends of the mint unit the blocks carried    *)
(* and in whatever order.                                                  *)
C18_MinterHoldsMintUnit ==
    \A i \in 1..Len(dbs) :
        \A asset \in DOMAIN dbs[i].minters :
            dbs[i].minters[asset] \notin {NULL, UNDEF} =>
                /\ Supply(dbs[i], MintAssetOf(asset)) = 1
                /\ storedBalance(dbs[i], dbs[i].minters[asset], MintAssetOf(asset)) = 1

coinbases(messages) ==
    SelectSeq(messages, LAMBDA message : message.payload.type = "coinbase")

(* C19: an accepted block holds at most one coinbase message; the next     *)
(* mined block whose first message is a live coinbase not confirmed        *)
(* before, with another coinbase in the block, is rejected with status 400 *)
(* 'multiple coinbases' and leaves the chain as it was.                    *)
C19_OneCoinbasePerBlock ==
    /\ blockAccepted => Len(coinbases(lastCall.block[1].messages)) <= 1
    /\ (/\ lastCall.op = "addBlock"
        /\ lastCall.block[1] = minedBlock(pre.blocks, lastCall.block[1].messages, 1)
        /\ Len(coinbases(lastCall.block[1].messages)) >= 2
        /\ lastCall.block[1].messages[1] = coinbaseMessage("A", 1)
        /\ withinWindow(lastCall.block[1].messages[1], pre.blocks)
        /\ ~hashSeen(topDb(pre.dbs), lastCall.block[1].messages[1].hash))
         => /\ lastCall.result = Err(400, "multiple coinbases")
            /\ dbs = pre.dbs
            /\ blocks = pre.blocks

C19_TwoCoinbasesRefused ==
    /\ lastCall.op = "addBlock"
    /\ lastCall.block[1].messages = <<coinbaseMessage("A", 1), coinbaseMessage("B", 1)>>
    /\ lastCall.result = Err(400, "multiple coinbases")
    /\ blocks = pre.blocks

buys(messages) ==
    SelectSeq(messages, LAMBDA message : message.payload.type = "buy")

\* The CRD the coinbases of the messages pay to the address.
RECURSIVE coinbasePaid(_, _)
coinbasePaid(messages, address) ==
    IF messages = <<>> THEN 0
    ELSE (IF /\ Head(messages).payload.type = "coinbase"
             /\ Head(messages).payload.address = address
          THEN Head(messages).payload.quantity ELSE 0)
         + coinbasePaid(Tail(messages), address)

(* C20: an accepted block with one buy of quantity q at price p for asset  *)
(* X, beside coinbase, minter and price messages only, leaves the minter   *)
(* of X with q*p CRD more, the buyer with q*p CRD less and q X more, and   *)
(* no other CRD balance changed but by a coinbase; X has a minter, p is    *)
(* the stored price of X or one a price message of the block advertises,   *)
(* and the buyer had q*p CRD with the coinbase of the block.               *)
C20_BuyPaysMinter ==
    (/\ blockAccepted
     /\ Len(buys(lastCall.block[1].messages)) = 1
     /\ \A i \in 1..Len(lastCall.block[1].messages) :
            lastCall.block[1].messages[i].payload.type
                \in {"buy", "coinbase", "minter", "price"})
      =>
        LET messages == lastCall.block[1].messages
            p == buys(messages)[1].payload
            buyer == getAddressFromPublicKey(p.publicKey)
            cost == p.quantity * p.price
            minter == Get(topDb(dbs).minters, p.asset)
            before == topDb(pre.dbs)
            after == topDb(dbs)
        IN /\ minter \notin {UNDEF, NULL}
           /\ \A address \in (DOMAIN after.balances) \cup {minter, buyer} :
                  storedBalance(after, address, CRD)
                    = storedBalance(before, address, CRD)
                      + coinbasePaid(messages, address)
                      + (IF address = minter THEN cost ELSE 0)
                      - (IF address = buyer THEN cost ELSE 0)
           /\ storedBalance(after, buyer, p.asset)
                 = storedBalance(before, buyer, p.asset) + p.quantity
           /\ \/ Get(before.prices, p.asset) = PriceNum(p.price)
              \/ \E i \in 1..Len(messages) :
                     /\ messages[i].payload.type = "price"
                     /\ messages[i].payload.asset = p.asset
                     /\ messages[i].payload.price = p.price
           /\ storedBalance(before, buyer, CRD) + coinbasePaid(messages, buyer) >= cost

(* C21: Message.verify never raises an exception: submitMessage, which     *)
(* hands the message to it with the tip snapshot and the mempool, returns  *)
(* OK or a tagged error whatever the mempool holds, a pending buy of the   *)
(* sender included.                                                        *)
C21_ValidatorTotal ==
    lastCall.op = "submitMessage" => ~lastCall.result.thrown

\* The save in flight has nothing left to do but call back.
saveEnding ==
    /\ saveJob.stage = "remove"
    /\ saveJob.listedDb /\ saveJob.listedBlocks /\ saveJob.unlinks = {}

(* C22: saves are serialized.  A save is in flight exactly while           *)
(* saveStateRunning is set; a saveState() call made while one is in flight *)
(* leaves it as it is and only sets the queued flag, however often it is   *)
(* made; a call made while none is in flight starts one.  When the save in *)
(* flight ends, one further save starts if the flag is set, of the blocks  *)
(* and snapshots then in memory, and the flag is cleared; otherwise none   *)
(* starts.                                                                 *)
C22_SavesSerialized ==
    /\ [](/\ saveStateRunning <=> saveJob # NoJob
          /\ queued => saveStateRunning
          /\ (blockAccepted /\ pre.saveStateRunning) =>
                 /\ saveJob = pre.saveJob
                 /\ saveStateRunning
                 /\ queued
          /\ (blockAccepted /\ ~pre.saveStateRunning) =>
                 /\ saveStateRunning
                 /\ ~queued
                 /\ saveJob = doSave(blocks, dbs, blockFiles, dbFiles))
    /\ [][(saveEnding /\ saveJob' # saveJob /\ crashes' = crashes) =>
             /\ ~queued'
             /\ IF queued
                THEN /\ saveStateRunning'
                     /\ saveJob' = doSave(blocks, dbs, blockFiles, dbFiles)
                ELSE /\ ~saveStateRunning'
                     /\ saveJob' = NoJob]_vars

\* A second request arrives while a save is in flight and one is queued.
C22_TwoRequestsOneSave ==
    /\ blockAccepted
    /\ pre.saveStateRunning
    /\ pre.queued
    /\ queued
    /\ saveJob = pre.saveJob

\* The files hold every block in memory and the snapshot of each of the
\* last UNDO_HEIGHT of them, and no block file above the tail.
filesReflectMemory ==
    /\ \A i \in 1..Len(blocks) :
           /\ blocks[i].height \in DOMAIN blockFiles
           /\ blockFiles[blocks[i].height] = blocks[i]
    /\ \A i \in 1..Len(dbs) :
           LET height == tailHeight(blocks) - Len(dbs) + i IN
           /\ height \in DOMAIN dbFiles
           /\ dbFiles[height] = DbFile(dbs[i])
    /\ \A height \in DOMAIN blockFiles : height <= tailHeight(blocks)
    /\ Len(dbs) = (IF Len(blocks) < UNDO_HEIGHT THEN Len(blocks) ELSE UNDO_HEIGHT)

(* C23: when every disk operation completes, an accepted block leads to a  *)
(* state where no save is in flight or queued and the files on disk hold   *)
(* the blocks and the snapshots in memory, the accepted block and its      *)
(* snapshot among them.                                                    *)
C23_CommitPersisted ==
    blockAccepted ~> (/\ ~saveStateRunning
                      /\ ~queued
                      /\ filesReflectMemory)

\* A block was accepted while a save was in flight, and the disk has it.
C23_QueuedSaveDone ==
    /\ ~saveStateRunning
    /\ filesReflectMemory
    /\ Len(blocks) = MaxLiveHeight
    /\ DOMAIN dbFiles = (MaxLiveHeight - UNDO_HEIGHT + 1)..MaxLiveHeight

(* C24: the shutdown is in order.  Once the shutdown function has been     *)
(* called the miner is stopped and every peer is disabled; the server is   *)
(* closed only when no save is in flight or queued any more; and the       *)
(* callback is called only after the save has ended and the server has     *)
(* closed.                                                                 *)
C24_ShutdownInOrder ==
    /\ shutdown.called =>
           /\ ~mining
           /\ \A i \in 1..Len(peers) : ~peers[i].enabled
    /\ server \in {"closing", "closed"} =>
           /\ shutdown.saveWait = "done"
           /\ ~saveStateRunning
    /\ shutdown.done =>
           /\ server = "closed"
           /\ shutdown.saveWait = "done"

\* The parts of C24 about the miner, the peers and the callback.
C24_CallbackAfterBoth ==
    /\ shutdown.called =>
           /\ ~mining
           /\ \A i \in 1..Len(peers) : ~peers[i].enabled
    /\ shutdown.done =>
           /\ server = "closed"
           /\ shutdown.saveWait = "done"

\* The server has closed while the shutdown waits for the save in flight.
C24_ClosedDuringSave ==
    /\ server = "closed"
    /\ shutdown.saveWait = "waiting"
    /\ saveStateRunning

\* The top of the longest run of block files 1, 2, ...
runTop(files) ==
    CHOOSE h \in 0..Cardinality(DOMAIN files) :
        /\ \A x \in 1..h : x \in DOMAIN files
        /\ (h + 1) \notin DOMAIN files

\* loadState has run in a process started after a crash, and the process
\* has done nothing since.
recovered ==
    /\ crashes > 0
    /\ phase = "running"
    /\ accepted = 0
    /\ lastCall = NoCall

(* C25: after a crash in the middle of a save and loadState, the blocks in *)
(* memory end at the top H of the longest run of block files from 1, and   *)
(* when there are blocks there is a snapshot, the newest being the state   *)
(* after block H: the one saved for H, whose newest layer of message       *)
(* hashes is that of block H.                                              *)
C25_RecoveryConsistent ==
    recovered =>
        LET H == runTop(blockFiles) IN
        /\ tailHeight(blocks) = H
        /\ Len(blocks) > 0 =>
               /\ blocks[Len(blocks)] = blockFiles[H]
               /\ Len(dbs) > 0
               /\ H \in DOMAIN dbFiles
               /\ DbFile(topDb(dbs)) = dbFiles[H]
               /\ Len(topDb(dbs).messageHashes) > 0
               /\ topDb(dbs).messageHashes[Len(topDb(dbs).messageHashes)]
                    = [i \in 1..Len(blockFiles[H].messages) |->
                         blockFiles[H].messages[i].hash]

\* The part of C25 about the blocks: the buffer ends at H.
C25_BlocksEndAtRunTop ==
    recovered =>
        /\ tailHeight(blocks) = runTop(blockFiles)
        /\ Len(blocks) > 0 => blocks[Len(blocks)] = blockFiles[runTop(blockFiles)]

\* The process recovered blocks and no snapshot.
C25_BlocksWithoutSnapshot ==
    /\ recovered
    /\ Len(blocks) > 0
    /\ Len(dbs) = 0

\* The Peer object is in this.peers and enabled.  An object that is not in
\* this.peers was disabled when it was removed.
isEnabled(id) ==
    \E i \in 1..Len(peers) : peers[i].id = id /\ peers[i].enabled

(* C26: a connection is opened and a reconnect timer runs only for a peer  *)
(* that is enabled.  A peer that has been disabled has no connection open  *)
(* or being opened, no reconnect timer pending and no pull interval, until *)
(* it is enabled again.                                                    *)
C26_DisabledPeerQuiet ==
    /\ \A s \in sockets : s.state \in {"connecting", "open"} => isEnabled(s.peer)
    /\ \A t \in timeouts : isEnabled(t.peer)
    /\ \A i \in 1..Len(peers) :
           ~peers[i].enabled => /\ peers[i].reconnectTimeout = 0
                                /\ ~peers[i].redownloadInterval

\* The part of C26 about the fields of a disabled peer.
C26_DisabledPeerFields ==
    \A i \in 1..Len(peers) :
        ~peers[i].enabled => /\ peers[i].reconnectTimeout = 0
                             /\ ~peers[i].redownloadInterval

\* A connection is being opened for a peer that is disabled.
C26_ConnectsWhileDisabled ==
    \E s \in sockets : s.state = "connecting" /\ ~isEnabled(s.peer)

(* C27: on a running node, after addPeer, removePeer and the               *)
(* refreshLivePeers of the start, at least MIN_NUM_LIVE_PEERS peers are    *)
(* enabled, or all the known ones when fewer are known; and never more     *)
(* than MIN_NUM_LIVE_PEERS are enabled.                                    *)
C27_LiveQuorum ==
    phase = "running" =>
        /\ Cardinality(enabledPeers(peers)) >=
               (IF Len(peers) < MIN_NUM_LIVE_PEERS THEN Len(peers) ELSE MIN_NUM_LIVE_PEERS)
        /\ Cardinality(enabledPeers(peers)) <= MIN_NUM_LIVE_PEERS

\* More peers than MIN_NUM_LIVE_PEERS were known, an enabled one was
\* removed, and the disabled one has taken its place.
C27_QuorumRefilled ==
    /\ lastCall.op = "removePeer"
    /\ Len(pre.peers) = MIN_NUM_LIVE_PEERS + 1
    /\ pre.peers[1].enabled
    /\ lastCall.url = <<pre.peers[1].url>>
    /\ Len(peers) = MIN_NUM_LIVE_PEERS
    /\ Cardinality(enabledPeers(peers)) = MIN_NUM_LIVE_PEERS

\* addPeer has returned and has left this.peers, the events and the save of
\* peers.txt as they were.
addPeerIgnored ==
    /\ peers = pre.peers
    /\ sockets = pre.sockets
    /\ emitted = <<>>
    /\ savePeersRunning = pre.savePeersRunning
    /\ peersQueued = pre.peersQueued
    /\ savePeersJob = pre.savePeersJob

(* C28: no two peers of this.peers have the same url and none has the url  *)
(* of the node itself; addPeer with a url that is known, or with the url   *)
(* of the node, changes nothing, emits no 'peer' event and asks for no     *)
(* save of peers.txt.                                                      *)
C28_PeerSetDistinct ==
    /\ \A i, j \in 1..Len(peers) : peers[i].url = peers[j].url => i = j
    /\ \A i \in 1..Len(peers) : peers[i].url # localUrl
    /\ (/\ lastCall.op = "addPeer"
        /\ \/ lastCall.url = <<localUrl>>
           \/ \E i \in 1..Len(pre.peers) : lastCall.url = <<pre.peers[i].url>>)
       => addPeerIgnored

\* The part of C28 about a url that is known.
C28_KnownUrlIgnored ==
    /\ \A i, j \in 1..Len(peers) : peers[i].url = peers[j].url => i = j
    /\ (/\ lastCall.op = "addPeer"
        /\ \E i \in 1..Len(pre.peers) : lastCall.url = <<pre.peers[i].url>>)
       => addPeerIgnored

\* The url of the node itself is the url of a peer that is enabled.
C28_SelfIsPeer ==
    \E i \in 1..Len(peers) : peers[i].url = localUrl /\ peers[i].enabled

(* C29: the mempool never holds more than MESSAGES_PER_BLOCK_MAX messages, *)
(* whatever submitMessage and addBlock calls are made; and submitMessage   *)
(* called while it holds that many returns status 503 'mempool full',      *)
(* whether the message is valid, invalid or waiting already, and leaves    *)
(* the mempool as it is and emits nothing: that is what the call would do *)
(* in every state where the mempool is full, and what the call that has    *)
(* just returned did.                                                      *)
C29_MempoolBounded ==
    /\ Len(mempool.messages) <= MESSAGES_PER_BLOCK_MAX
    /\ (phase = "running" /\ Len(mempool.messages) = MESSAGES_PER_BLOCK_MAX) =>
           \A message \in fullMessages :
               LET out == submitMessage(dbs, blocks, mempool, message) IN
               /\ out.result = Err(503, "mempool full")
               /\ out.mempool = mempool
               /\ out.events = <<>>
    /\ (/\ lastCall.op = "submitMessage"
        /\ Len(pre.mempool.messages) = MESSAGES_PER_BLOCK_MAX)
       => /\ lastCall.result = Err(503, "mempool full")
          /\ mempool = pre.mempool
          /\ emitted = <<>>

\* The mempool is full, and submitMessage with a message no validation
\* accepts returns 'mempool full' and not the error of the validation.
C29_FullRefuses ==
    /\ phase = "running"
    /\ lastCall = NoCall
    /\ Len(mempool.messages) = MESSAGES_PER_BLOCK_MAX
    /\ submitMessage(dbs, blocks, mempool, minterB).result = Err(503, "mempool full")
    /\ submitMessage(dbs, blocks, [mempool EXCEPT !.messages = SubSeq(@, 1, Len(@) - 1)], minterB).result
         = StackErr(400, "asset already has minter")

\* A block has confirmed messages that waited in a full mempool.
C29_BlockDrainsMempool ==
    /\ blockAccepted
    /\ Len(pre.mempool.messages) = MESSAGES_PER_BLOCK_MAX
    /\ Len(mempool.messages) = MESSAGES_PER_BLOCK_MAX - 2

(* C30: when addBlock has committed a block, the snapshots below the new   *)
(* top of the undo stack are the newest snapshots the stack held before,   *)
(* each as it was, and the one just below the top is the snapshot that was *)
(* the tip before the commit.                                              *)
C30_SnapshotsKept ==
    blockAccepted =>
        /\ Len(dbs) > 0
        /\ SubSeq(dbs, 1, Len(dbs) - 1) = LastN(pre.dbs, Len(dbs) - 1)
        /\ Len(pre.dbs) > 0 => dbs[Len(dbs) - 1] = topDb(pre.dbs)

\* A block was committed on a full undo stack: the oldest snapshot has left
\* and the others have moved down.
C30_CommitOnFullStack ==
    /\ blockAccepted
    /\ Len(pre.dbs) = UNDO_HEIGHT
    /\ Len(dbs) = UNDO_HEIGHT
    /\ dbs[UNDO_HEIGHT - 1] = pre.dbs[UNDO_HEIGHT]
    /\ dbs[1] = pre.dbs[2]

\* The connections of the Peer object that are open or being opened.
liveSockets(id) ==
    { s \in sockets : s.peer = id /\ s.state \in {"connecting", "open"} }

(* C40: an enabled peer has at most one connection that is open or being   *)
(* opened and at most one reconnect timer pending, however the open,       *)
(* error, close and timer events of its connections interleave.            *)
C40_OneConnectionOneTimer ==
    \A i \in 1..Len(peers) :
        peers[i].enabled =>
            /\ Cardinality(liveSockets(peers[i].id)) <= 1
            /\ Cardinality({ t \in timeouts : t.peer = peers[i].id }) <= 1

\* An enabled peer has two connections at once.
C40_TwoConnections ==
    \E i \in 1..Len(peers) :
        peers[i].enabled /\ Cardinality(liveSockets(peers[i].id)) = 2

\* The block Block.verify was called with, and the chain and the snapshot it
\* was verified against.
verified ==
    lastCall.block[1]

\* The k-th of the seven tests Block.verify makes of the block itself.
blockCheck(k) ==
    CASE k = 1 -> getHash(verified) = verified.hash
      [] k = 2 -> verified.prevHash = tailHash(pre.blocks)
      [] k = 3 -> verified.height = tailHeight(pre.blocks) + 1
      [] k = 4 -> 2 * verified.timestamp >= twiceNextBlockMinTimestamp(pre.blocks)
      [] k = 5 -> checkHashMeetsTarget(verified)
      [] k = 6 -> Len(verified.messages) <= MESSAGES_PER_BLOCK_MAX
      [] k = 7 -> checkSufficientDifficulty(verified, pre.blocks)

blockCheckError ==
    <<Err(400, "invalid hash"), SoftErr(400, "invalid previous hash"),
      Err(400, "invalid height"), Err(400, "invalid timestamp"),
      Err(400, "invalid difficulty claim"), Err(400, "too many messages"),
      Err(400, "insufficient difficulty")>>

\* What the validator says of the i-th message of the verified block among
\* the other messages of the block.
messageCheck(i) ==
    MessageVerify(verified.messages[i], topDb(pre.dbs), pre.blocks, NoMempool,
                  RemoveAt(verified.messages, i))

\* Block.verify returns the error of the first test that fails, the seven
\* tests of the block before the messages, the messages in block order.
firstFailingCheck ==
    /\ \A k \in 1..7 :
           ((\A j \in 1..(k - 1) : blockCheck(j)) /\ ~blockCheck(k))
               => lastCall.result = blockCheckError[k]
    /\ (\A k \in 1..7 : blockCheck(k)) =>
           /\ \A i \in 1..Len(verified.messages) :
                  ((\A j \in 1..(i - 1) : messageCheck(j) = OK) /\ messageCheck(i) # OK)
                      => lastCall.result = messageCheck(i)
           /\ (\A i \in 1..Len(verified.messages) : messageCheck(i) = OK)
                  => lastCall.result = OK

(* C32: Block.verify tests, in this order, the hash, the previous hash,    *)
(* the height, the timestamp, the difficulty claim, the message count, the *)
(* sufficiency of the difficulty and then each message, and returns the    *)
(* error of the first test that fails; the soft errors are the wrong       *)
(* previous hash and the replay a message validation detects.              *)
C32_FirstFailingCheck ==
    lastCall.op = "verify" =>
        /\ firstFailingCheck
        /\ lastCall.result.soft =>
               lastCall.result \in {SoftErr(400, "invalid previous hash"),
                                    SoftErr(400, "replay detected")}

\* C32 as the specification words it: the same order, and the wrong
\* previous hash is the only soft error.
C32_OnlyPrevHashSoft ==
    lastCall.op = "verify" =>
        /\ firstFailingCheck
        /\ lastCall.result.soft => lastCall.result = SoftErr(400, "invalid previous hash")

\* A block with a wrong hash and a wrong previous hash was verified and
\* 'invalid hash' came back.
C32_HashBeforePrevHash ==
    /\ lastCall.op = "verify"
    /\ ~blockCheck(1)
    /\ ~blockCheck(2)
    /\ lastCall.result = Err(400, "invalid hash")
    /\ ~lastCall.result.soft

\* A block whose seven tests pass and that repeats a confirmed message was
\* verified: the error is soft.
C32_ReplayIsSoft ==
    /\ lastCall.op = "verify"
    /\ \A k \in 1..7 : blockCheck(k)
    /\ lastCall.result = SoftErr(400, "replay detected")

\* The signatures of the messages of a block.
signaturesOf(block) ==
    { block.messages[i].signature : i \in 1..Len(block.messages) }

(* C33: after a main-chain commit of a block, no message of the mempool    *)
(* has the signature of a message of the block, the block is not among     *)
(* mempool.blocks, and every other message and block of the mempool is     *)
(* kept, in the order it had.                                              *)
C33_MempoolEvicted ==
    blockAccepted =>
        /\ \A i \in 1..Len(mempool.messages) :
               mempool.messages[i].signature \notin signaturesOf(lastCall.block[1])
        /\ \A i \in 1..Len(mempool.blocks) :
               mempool.blocks[i].hash # lastCall.block[1].hash
        /\ mempool.messages
               = SelectSeq(pre.mempool.messages,
                           LAMBDA m : m.signature \notin signaturesOf(lastCall.block[1]))
        /\ mempool.blocks
               = SelectSeq(pre.mempool.blocks,
                           LAMBDA b : b.hash # lastCall.block[1].hash)

\* A block was committed that confirms one of two waiting messages: the
\* other one still waits.
C33_OneEvictedOneKept ==
    /\ blockAccepted
    /\ Len(pre.mempool.messages) = 2
    /\ Len(mempool.messages) = 1
    /\ \E i \in 1..2 : pre.mempool.messages[i].signature \in signaturesOf(lastCall.block[1])

\* No asset entry of the balances is 0 and no address has an empty map.
pruned(balances) ==
    \A address \in DOMAIN balances :
        /\ DOMAIN balances[address] # {}
        /\ \A asset \in DOMAIN balances[address] : balances[address][asset] # 0

(* C34: after a commit the balances of the new snapshot hold no asset      *)
(* entry equal to 0 and no address with an empty asset map.                *)
C34_BalancesPruned ==
    blockAccepted => pruned(topDb(dbs).balances)

\* A block with a send of all the source had was committed: the entry of
\* the source is stored as 0.
C34_SendLeavesZero ==
    /\ blockAccepted
    /\ pruned(topDb(pre.dbs).balances)
    /\ \E i \in 1..Len(lastCall.block[1].messages) :
           LET p == lastCall.block[1].messages[i].payload IN
           /\ p.type = "send"
           /\ p.address \in DOMAIN topDb(dbs).balances
           /\ p.asset \in DOMAIN topDb(dbs).balances[p.address]
           /\ topDb(dbs).balances[p.address][p.asset] = 0

\* The lists of messages that may wait in the mempool of the ledger.
waitingLists ==
    LET pool == {sendAB, sendABagain, sendABbig, buyA} IN
    {<<>>} \cup { <<first>> : first \in pool }
           \cup { <<pair[1], pair[2]>> :
                      pair \in { q \in pool \X pool : q[1] # q[2] } }

\* What addBlock does with the block of the last call on the chain of that
\* call when these messages wait.
addBlockWith(messages) ==
    addBlock(pre.dbs, pre.blocks, [pre.mempool EXCEPT !.messages = messages],
             lastCall.block[1])

\* addBlock was called with a candidate for the tip of the main chain.
tipCandidate ==
    /\ lastCall.op = "addBlock"
    /\ ~checkBlockExists(pre.blocks, pre.mempool, lastCall.block[1])
    /\ findBlockAttachPoint(pre.blocks, pre.mempool, lastCall.block[1]).type = "mainChain"

(* C35: with the same snapshots and blocks, addBlock of the same           *)
(* main-chain block returns the same result and leaves the same snapshots  *)
(* and blocks whatever messages wait in the mempool.                       *)
C35_MempoolIndependent ==
    tipCandidate =>
        \A messages \in waitingLists :
            /\ addBlockWith(messages).result = lastCall.result
            /\ addBlockWith(messages).dbs = dbs
            /\ addBlockWith(messages).blocks = blocks

\* A block was accepted with a message that the validator refuses when it
\* counts the messages that wait.
C35_AcceptedAgainstMempool ==
    /\ tipCandidate
    /\ lastCall.result = OK
    /\ pre.mempool.messages # <<>>
    /\ verifyMessages(lastCall.block[1], topDb(pre.dbs), pre.blocks, pre.mempool, 1) # OK

\* The hashes of the messages of a block, in block order.
hashListOf(block) ==
    [i \in 1..Len(block.messages) |-> block.messages[i].hash]

\* The layers a snapshot made by the block of this height has when every
\* block left its layer: those of the last MESSAGE_TTL blocks up to it.
layersAt(chain, height) ==
    LET n == IF height < MESSAGE_TTL THEN height ELSE MESSAGE_TTL
        first == chain[1].height
    IN [k \in 1..n |-> hashListOf(chain[(height - n + k) - first + 1])]

\* The height of the block that made the j-th snapshot of the undo stack.
snapshotHeight(j) ==
    tailHeight(blocks) - (Len(dbs) - j)

(* C36: in every snapshot of the undo stack messageHashes has at most      *)
(* MESSAGE_TTL layers, the last one is the list of the message hashes of   *)
(* the block that made the snapshot, and the layers are those of the most  *)
(* recent confirmed blocks in chain order.                                 *)
C36_LayersAligned ==
    \A j \in 1..Len(dbs) :
        /\ Len(dbs[j].messageHashes) <= MESSAGE_TTL
        /\ snapshotHeight(j) >= 1
        /\ snapshotHeight(j) - Len(dbs[j].messageHashes) + 1 >= blocks[1].height
        /\ dbs[j].messageHashes = layersAt(blocks, snapshotHeight(j))

\* C36 for the nodes that never stopped in the middle of a save.
C36_AlignedWithoutCrash ==
    crashes = 0 => C36_LayersAligned

\* A block was committed on a snapshot with MESSAGE_TTL layers: the oldest
\* layer has left and the layer of the block is the last.
C36_LayerShifted ==
    /\ blockAccepted
    /\ crashes = 0
    /\ Len(topDb(pre.dbs).messageHashes) = MESSAGE_TTL
    /\ Len(topDb(dbs).messageHashes) = MESSAGE_TTL
    /\ topDb(dbs).messageHashes[MESSAGE_TTL] = hashListOf(lastCall.block[1])
    /\ topDb(dbs).messageHashes[1] = topDb(pre.dbs).messageHashes[2]

(* C37: no accepted block holds the same message, a message with the same  *)
(* hash, more than once.                                                   *)
C37_NoDuplicateInBlock ==
    blockAccepted =>
        \A i, j \in 1..Len(lastCall.block[1].messages) :
            i # j => lastCall.block[1].messages[i].hash # lastCall.block[1].messages[j].hash

\* A block that holds the same send twice was accepted and the source paid
\* twice.
C37_SendAppliedTwice ==
    /\ blockAccepted
    /\ lastCall.block[1].messages = <<sendSmall, sendSmall>>
    /\ topDb(dbs).balances["A"][CRD] = topDb(pre.dbs).balances["A"][CRD] - 60

(* C38: the messages that wait can be mined: each is within its TTL for    *)
(* the next height, none is in a layer of the message hashes of the tip    *)
(* snapshot, none is a coinbase, and the block doHash builds from them     *)
(* with one new coinbase passes the validation of its messages against the *)
(* tip snapshot.                                                           *)
C38_MempoolMinable ==
    phase = "running" =>
        /\ \A i \in 1..Len(mempool.messages) :
               /\ withinTtl(mempool.messages[i].payload.startHeight, tailHeight(blocks) + 1)
               /\ ~hashSeen(topDb(dbs), mempool.messages[i].hash)
               /\ mempool.messages[i].payload.type # "coinbase"
        /\ verifyMessages([messages |-> candidateMessages("A")], topDb(dbs), blocks,
                          NoMempool, 1) = OK

\* A block was accepted that spends what a message that waits needs: the
\* message still waits and the block doHash builds is not valid.
C38_StaleMessageWaits ==
    /\ blockAccepted
    /\ verifyMessages([messages |-> SubSeq(pre.mempool.messages, 1, Len(pre.mempool.messages))
                                      \o <<coinbaseMessage("A", tailHeight(pre.blocks) + 1)>>],
                      topDb(pre.dbs), pre.blocks, NoMempool, 1) = OK
    /\ mempool.messages # <<>>
    /\ verifyMessages([messages |-> candidateMessages("A")], topDb(dbs), blocks,
                      NoMempool, 1) # OK

\* C31: after mining is stopped (POST /mine with address null, or the
\* shutdown), no run of _mine happens until mining is started again: no
\* call of the miner has just returned while mineAddress is null, also
\* when the stop came while the miner waited to retry after an error.
C31_StoppedMinerIdle ==
    ~(mineAddress = NULL /\ lastCall.op = "mine")

\* A run of _mine threw, mining was stopped and the retry has run.
C31_RetryAfterStop ==
    /\ mineAddress = NULL
    /\ lastCall.op = "mine"
    /\ lastCall.result.thrown
    /\ ~mining

\* Mining is enabled at tail height h, and later the tail is higher or
\* mining has been stopped.
MineProgress(h) ==
    (mineAddress # NULL /\ tailHeight(blocks) = h)
        ~> (tailHeight(blocks) > h \/ mineAddress = NULL)

\* C39: mining makes progress. While mining is enabled and the searches
\* of doHash find a nonce, the tail height increases in the end, whatever
\* messages were submitted before: no mined block is refused forever
\* because of the waiting messages it bundles.
C39_MiningProgresses ==
    \A h \in 0..(MaxMineHeight - 1) : MineProgress(h)

\* The miner has just failed to add the block it built from the waiting
\* messages, and the messages still wait.
C39_MinedBlockRefused ==
    /\ lastCall.op = "mine"
    /\ lastCall.block # <<>>
    /\ lastCall.result # OK
    /\ mineAddress # NULL
    /\ mempool.messages # <<>>
    /\ mempool.messages = pre.mempool.messages

====
